---- MODULE Spec2Model ----
(***************************************************************************)
(* State-machine model of clickup-reddit: the ordered concurrent           *)
(* classification pipeline (CommentAnalyzer.analyze), its caller           *)
(* (analyzeTarget / processTarget with the CSV writer), the enrichment     *)
(* memoizer (LlmCache.getOrCompute), the checksum canonicalisation         *)
(* (utils/hash.ts), the file cache (FileCache) and the paginated fetcher   *)
(* (PullpushClient).  One step of the model is one run-to-completion turn  *)
(* of the JavaScript event loop: the code between two awaits.              *)
(***************************************************************************)
EXTENDS Integers, Sequences, FiniteSets, TLC

\* ---------------------------------------------------------------- bounds
MaxComments == 4
MaxConcurrency == 3
MaxKeys == 2        \* entries of a generated object
MaxItems == 2       \* elements of a generated array
MaxCalls == 3       \* calls of getOrCompute
MaxOps == 3         \* reads and writes of the file cache
MaxRuns == 2        \* calls of fetchAll on one cache

\* ------------------------------------------------------------- variables
VARIABLES
    \* CommentAnalyzer.analyze
    n,              \* sorted.length
    concurrency,    \* this.concurrency, the argument of pLimit
    hasCallback,    \* options.onClassification is given
    shouldCollect,  \* collectClassifications ?? !onClassification
    analyzePc,      \* where the body of analyze stands
    analyzeError,   \* the error analyze rejected with
    returned,       \* the classifications list analyze returned
    taskPc,         \* per index: where the limited task stands
    taskError,      \* per index: the error the task rejected with
    activeCount,    \* p-limit's count of running functions
    pending,        \* the keys of the pending map
    nextEmitIndex,
    collected,
    callbackSeq,    \* history: the indices passed to onClassification
    completionOrder,\* history: the indices in the order classifyComment resolved
    \* analyzeTarget / processTarget
    caller,         \* "direct" (analyze called on its own) or "target"
    targetPc,
    writer,         \* the CsvStreamWriter: "none", "open", "closed"
    rows,           \* history: the indices written by writeRow
    \* checksumFrom (utils/hash.ts)
    hashPc,
    hashValue1,     \* the two values handed to checksumFrom
    hashValue2,
    hashDigest1,    \* the digests returned
    hashDigest2,
    \* LlmCache.getOrCompute over a CacheClient
    memoCache,      \* the namespace 'openai-responses': checksum -> body
    callPc,         \* per call of getOrCompute: where it stands
    callPayload,    \* its payload argument
    callRead,       \* what its cache.read returned
    callValue,      \* the result of its compute, then its return value
    callComputes,   \* history: how often it invoked compute
    callWrites,     \* history: how often its cache.write completed
    memoWrites,     \* history: the writes the cache received
    overlapped,     \* history: payloads read while an equal request was being computed
    callComment,    \* classifyComment: the id of the call's comment
    callPosition,   \* classifyComment: the (index, total) of the call
    callWarm,       \* history: a classification of the comment had completed when the call began
    \* FileCache over the file system
    dirs,           \* the namespace directories that exist
    fileBody,       \* per key: the content of <checksum>.body
    fileMeta,       \* per key: the content of <checksum>.meta.json
    opPc,           \* per caller: where its current read or write stands
    opKind,
    opKey,
    opBody,         \* a write's entry.body
    opBodyStep,     \* the operation's progress on the body file
    opMetaStep,     \* the same for the metadata file
    opBodyRead,     \* what a read's readFile of the body file settled with
    opMetaRead,     \* the same for the metadata file
    opResult,       \* what a read returned
    lastWrite,      \* history: per key, the body of the last completed write
    prevWrite,      \* history: per key, the body of the completed write before that
    opLast,         \* history: lastWrite of a read's key when the read began
    opsStarted,     \* the number of reads and writes called so far
    writeOverlap,   \* history: the keys two writes of which overlapped
    readOverlap,    \* history: the reads that overlapped a write of their key
    \* PullpushClient.fetchAll over a page cache
    client,         \* the options the client was constructed with, and its ranges
    service,        \* how the service answers: anything, or the window asked for
    pageCache,      \* the cache: per checksum, the stored body
    fetchPc,        \* where fetchAll stands
    runs,           \* the number of fetchAll calls so far
    clock,          \* Date.now(), measured from the start of the fetchAll
    rangeIdx,       \* the range fetchAll is at
    cursor,
    lastRequestTime,
    attempt,
    waitMs,         \* the duration of the sleep in progress
    httpResponse,   \* the status and retry-after header of the response fetchLive holds
    requestStart,   \* Date.now() when the latest live request of this fetchAll was issued, -1 before the first
    requestGap,     \* the time between the starts of the two latest live requests, -1 before the second
    responseText,   \* the response text fetchLive is writing to the cache
    results,        \* fetchRange's results
    dedup,          \* fetchAll's map, as its values in insertion order
    fetched,        \* what fetchAll returned
    fetchError,     \* what fetchAll threw
    liveRequests,   \* history: the HTTP requests of this fetchAll
    cacheHits,      \* history: the pages of this fetchAll served from the cache
    curFound,       \* history: the cache held the page the loop is at
    curRequests,    \* history: the HTTP requests for the page the loop is at
    curLimited,     \* history: the 429 responses among them
    curSleeps,      \* history: the spacing sleeps for it
    curWrites,      \* history: the cache writes for it
    lastPage,        \* history: the same counts for the page last handed to the loop
    seenIds,         \* history: the ids in the pages of this fetchAll
    rangePages,     \* history: the page requests of the range fetchAll is at
    prevOk,         \* history: the fetchAll before this one completed successfully
    prevFetched,    \* history: the list it returned
    \* splitIntoMonthlyRanges
    splitPc,        \* "unused", "called", "returned" or "threw"
    splitStart,     \* startEpoch
    splitEnd,       \* endEpoch
    splitMonths,    \* monthsPerBatch
    splitRanges,    \* the ranges returned
    \* analyze: the order of the comments
    sortPc,         \* "unused", "called" or "sorted"
    comments,       \* the list analyze is called with
    sorted,         \* [...comments].sort(...)
    \* analyze: the category list
    catPc,          \* "unused", "start", "classifying" or "threw"
    catSource,      \* "discovery" or "seed"
    catInput,       \* the slugs the consolidation answered, or those of the categories file
    categories,     \* the slugs of the list handed to classifyComment
    \* CommentAnalyzer.generateCategories / discoverCategories
    discPc,         \* "unused", "idle", "iterating", "consolidating" or "done"
    discOptions,    \* categoryIterations and categorySampleSize
    discComments,   \* comments.length; the comments are 1 .. discComments
    discIteration,  \* iteration
    discCandidates, \* iterationResults, as slugs
    discCache,      \* the entries of the cache discovery reads and writes
    discCalls,      \* history: the inference calls of this generateCategories
    discRuns,       \* history: the calls of generateCategories
    discResult,     \* the list the last completed call returned
    discPrev        \* history: the list the call before it returned

analyzeVars == <<n, concurrency, hasCallback, shouldCollect, analyzePc, analyzeError,
                 returned, taskPc, taskError, activeCount, pending, nextEmitIndex,
                 collected, callbackSeq, completionOrder>>
targetVars == <<caller, targetPc, writer, rows>>

hashVars == <<hashPc, hashValue1, hashValue2, hashDigest1, hashDigest2>>

memoVars == <<memoCache, callPc, callPayload, callRead, callValue, callComputes,
              callWrites, memoWrites, overlapped, callComment, callPosition, callWarm>>

fileVars == <<dirs, fileBody, fileMeta, opPc, opKind, opKey, opBody, opBodyStep,
              opMetaStep, opBodyRead, opMetaRead, opResult, lastWrite, prevWrite,
              opLast, opsStarted, writeOverlap, readOverlap>>

fetchVars == <<client, service, pageCache, fetchPc, runs, clock, rangeIdx, cursor,
               lastRequestTime, attempt, waitMs, httpResponse, requestStart, requestGap,
              responseText, results, dedup, fetched,
               fetchError, liveRequests, cacheHits, curFound, curRequests, curLimited,
               curSleeps,
               curWrites, lastPage, seenIds, rangePages, prevOk, prevFetched>>

splitVars == <<splitPc, splitStart, splitEnd, splitMonths, splitRanges>>

sortVars == <<sortPc, comments, sorted>>

catVars == <<catPc, catSource, catInput, categories>>

discVars == <<discPc, discOptions, discComments, discIteration, discCandidates,
              discCache, discCalls, discRuns, discResult, discPrev>>

vars == <<analyzeVars, targetVars, hashVars, memoVars, fileVars, fetchVars, splitVars,
          sortVars, catVars, discVars>>

\* what the steps of analyze and analyzeTarget leave alone
outsidePipeline == <<hashVars, memoVars, fileVars, fetchVars, splitVars, sortVars, catVars, discVars>>
\* what the steps of checksumFrom leave alone
outsideHash == <<analyzeVars, targetVars, memoVars, fileVars, fetchVars, splitVars, sortVars, catVars, discVars>>
\* what the steps of getOrCompute leave alone
outsideMemo == <<analyzeVars, targetVars, hashVars, fileVars, fetchVars, splitVars, sortVars, catVars, discVars>>
\* what the steps of FileCache leave alone
outsideFile == <<analyzeVars, targetVars, hashVars, memoVars, fetchVars, splitVars, sortVars, catVars, discVars>>
\* what the steps of fetchAll leave alone
outsideFetch == <<analyzeVars, targetVars, hashVars, memoVars, fileVars, splitVars, sortVars, catVars, discVars>>
\* what splitIntoMonthlyRanges leaves alone
outsideSplit == <<analyzeVars, targetVars, hashVars, memoVars, fileVars, fetchVars, sortVars, catVars, discVars>>
\* what the sort of analyze leaves alone
outsideSort == <<analyzeVars, targetVars, hashVars, memoVars, fileVars, fetchVars, splitVars, catVars, discVars>>

\* what the choice of the category list leaves alone
outsideCategories == <<analyzeVars, targetVars, hashVars, memoVars, fileVars, fetchVars,
                       splitVars, sortVars, discVars>>

\* what category discovery leaves alone
outsideDiscover == <<analyzeVars, targetVars, hashVars, memoVars, fileVars, fetchVars,
                     splitVars, sortVars, catVars>>

\* ------------------------------------------------------------ analyze
Indices == 0 .. (n - 1)

\* The classification of sorted[i] is modelled by its index i.
NoError == [kind |-> "none", index |-> 0]
ClassifyError(i) == [kind |-> "classify", index |-> i]
CallbackError(i) == [kind |-> "callback", index |-> i]
CategoriesError == [kind |-> "categories", index |-> 0]

\* The list 0, 1, ..., m-1.
UpTo(m) == [k \in 1 .. m |-> k - 1]

\* (mutant) the option is ignored: results are collected unless a callback is given
CollectUnlessCallback(collectOpt, callbackGiven) == ~callbackGiven

\* const shouldCollect = options.collectClassifications ?? !options.onClassification
\* (collectOpt is "unset", "true" or "false")
ShouldCollect(collectOpt, callbackGiven) ==
    IF collectOpt = "unset" THEN ~callbackGiven ELSE collectOpt = "true"

\* (mutant) the entry is not removed before the awaited callback
PendingKeep(p, i) == p

\* pending.delete(nextEmitIndex)
PendingDelete(p, i) == p \ {i}

\* (mutant) a drain that emits the lowest completed index, whatever nextEmitIndex is
EmitLowestPending(p, nei, col, cbs) ==
    IF p # {}
    THEN LET i == CHOOSE x \in p : \A y \in p : x <= y
         IN [pending |-> p \ {i}, nextEmitIndex |-> nei,
             collected |-> IF shouldCollect THEN Append(col, i) ELSE col,
             callbackSeq |-> IF hasCallback THEN Append(cbs, i) ELSE cbs,
             suspended |-> hasCallback]
    ELSE [pending |-> p, nextEmitIndex |-> nei, collected |-> col,
          callbackSeq |-> cbs, suspended |-> FALSE]

\* (mutant) a drain that emits the least pending index, whatever nextEmitIndex is
EmitLeastPending(p, nei, col, cbs) ==
    IF p # {}
    THEN LET least == CHOOSE i \in p : \A j \in p : i <= j
         IN [pending |-> p \ {least}, nextEmitIndex |-> least,
             collected |-> IF shouldCollect THEN Append(col, least) ELSE col,
             callbackSeq |-> Append(cbs, least), suspended |-> hasCallback]
    ELSE [pending |-> p, nextEmitIndex |-> nei, collected |-> col,
          callbackSeq |-> cbs, suspended |-> FALSE]

\* (mutant) a drain that skips an index that is missing and emits the next one held
EmitSkippingMissing(p, nei, col, cbs) ==
    IF \E i \in p : i >= nei
    THEN LET next == CHOOSE i \in p : i >= nei /\ \A j \in p : j >= nei => i <= j
         IN [pending |-> p \ {next}, nextEmitIndex |-> next,
             collected |-> IF shouldCollect THEN Append(col, next) ELSE col,
             callbackSeq |-> Append(cbs, next), suspended |-> hasCallback]
    ELSE [pending |-> p, nextEmitIndex |-> nei, collected |-> col,
          callbackSeq |-> cbs, suspended |-> FALSE]

\* (mutant) a drain that finds nothing ready
EmitNothing(p, nei, col, cbs) ==
    [pending |-> p, nextEmitIndex |-> nei, collected |-> col, callbackSeq |-> cbs,
     suspended |-> FALSE]

\* (mutant) a drain that waits for every classification before it emits
EmitWhenAllDone(p, nei, col, cbs) ==
    IF nei \in p /\ (\A i \in Indices : i >= nei => i \in p)
    THEN [pending |-> p \ {nei}, nextEmitIndex |-> nei,
          collected |-> IF shouldCollect THEN Append(col, nei) ELSE col,
          callbackSeq |-> IF hasCallback THEN Append(cbs, nei) ELSE cbs,
          suspended |-> hasCallback]
    ELSE [pending |-> p, nextEmitIndex |-> nei, collected |-> col,
          callbackSeq |-> cbs, suspended |-> FALSE]

\* One synchronous run of the while loop of emitIfReady, from its loop test up to
\* its first await (the callback) or its end.  With no callback the loop has no
\* await and drains every consecutive ready index.
RECURSIVE EmitIfReady(_, _, _, _)
EmitIfReady(p, nei, col, cbs) ==
    IF nei \in p
    THEN LET p2 == PendingDelete(p, nei)
             col2 == IF shouldCollect THEN Append(col, nei) ELSE col
         IN IF hasCallback
            THEN [pending |-> p2, nextEmitIndex |-> nei, collected |-> col2,
                  callbackSeq |-> Append(cbs, nei), suspended |-> TRUE]
            ELSE EmitIfReady(p2, nei + 1, col2, cbs)
    ELSE [pending |-> p, nextEmitIndex |-> nei, collected |-> col,
          callbackSeq |-> cbs, suspended |-> FALSE]

\* (mutant) the limiter admits one function too many
LimitAdmitsOneMore(active, limit) == active <= limit

\* p-limit: a queued function starts only while fewer than `concurrency` run.
LimitAdmits(active, limit) == active < limit

\* (mutant) a task's rejection is swallowed instead of rejecting the aggregate
SwallowRejection(pc, err, taskErr) == <<pc, err>>

\* Promise.all(tasks): the first task to reject rejects the aggregate.
PropagateRejection(pc, err, taskErr) ==
    IF pc = "awaitAll" THEN <<"rejected", taskErr>> ELSE <<pc, err>>

\* The value analyze returns: shouldCollect ? collected : []
ReturnValue(col) == IF shouldCollect THEN col ELSE <<>>

NoResult == <<-1>>

InitAnalyze ==
    /\ n \in 0 .. MaxComments
    /\ concurrency \in 1 .. MaxConcurrency
    /\ hasCallback \in BOOLEAN
    /\ \E collectOpt \in {"unset", "true", "false"} :
          shouldCollect = ShouldCollect(collectOpt, hasCallback)
    /\ analyzePc = "notCalled"
    /\ analyzeError = NoError
    /\ returned = NoResult
    /\ taskPc = [i \in Indices |-> "queued"]
    /\ taskError = [i \in Indices |-> NoError]
    /\ activeCount = 0
    /\ pending = {}
    /\ nextEmitIndex = 0
    /\ collected = <<>>
    /\ callbackSeq = <<>>
    /\ completionOrder = <<>>

InitTarget ==
    /\ caller \in {"direct", "target"}
    /\ targetPc = IF caller = "target" THEN "start" ELSE "none"
    /\ writer = "none"
    /\ rows = <<>>
    \* analyzeTarget passes collectClassifications: false and a callback
    /\ caller = "target" => hasCallback /\ ~shouldCollect

\* if (comments.length === 0) return { categories: [], classifications: [] }
AnalyzeEmpty ==
    /\ UNCHANGED outsidePipeline
    /\ analyzePc = "notCalled"
    /\ caller = "direct"
    /\ n = 0
    /\ analyzePc' = "resolved"
    /\ returned' = <<>>
    /\ UNCHANGED <<n, concurrency, hasCallback, shouldCollect, analyzeError, taskPc,
                   taskError, activeCount, pending, nextEmitIndex, collected,
                   callbackSeq, completionOrder, targetVars>>

\* categories = seedCategories ?? await discoverCategories(); onCategories;
\* limit = pLimit(concurrency); tasks = sorted.map(... limit(...)); await Promise.all
AnalyzeBegin ==
    /\ UNCHANGED outsidePipeline
    /\ analyzePc = "notCalled"
    /\ caller = "target" => targetPc = "analyzing"
    /\ n > 0
    /\ analyzePc' = "awaitAll"
    /\ UNCHANGED <<n, concurrency, hasCallback, shouldCollect, analyzeError, returned,
                   taskPc, taskError, activeCount, pending, nextEmitIndex, collected,
                   callbackSeq, completionOrder, targetVars>>

\* discoverCategories (or the onCategories callback) throws before any task exists
CategoriesFail ==
    /\ UNCHANGED outsidePipeline
    /\ analyzePc = "notCalled"
    /\ caller = "target" => targetPc = "analyzing"
    /\ n > 0
    /\ analyzePc' = "rejected"
    /\ analyzeError' = CategoriesError
    /\ UNCHANGED <<n, concurrency, hasCallback, shouldCollect, returned,
                   taskPc, taskError, activeCount, pending, nextEmitIndex, collected,
                   callbackSeq, completionOrder, targetVars>>

TasksExist == analyzePc \in {"awaitAll", "finalDrain", "resolved", "rejected"}
                 /\ analyzeError # CategoriesError

\* p-limit dequeues the next function (FIFO) and calls classifyComment
Start(i) ==
    /\ UNCHANGED outsidePipeline
    /\ TasksExist
    /\ taskPc[i] = "queued"
    /\ \A j \in Indices : j < i => taskPc[j] # "queued"
    /\ LimitAdmits(activeCount, concurrency)
    /\ activeCount' = activeCount + 1
    /\ taskPc' = [taskPc EXCEPT ![i] = "classifying"]
    /\ UNCHANGED <<n, concurrency, hasCallback, shouldCollect, analyzePc, analyzeError,
                   returned, taskError, pending, nextEmitIndex, collected,
                   callbackSeq, completionOrder, targetVars>>

\* (mutant) the callback writes no row
WriteNoRow(rs, i) == rs

\* the writer's part of the callback: writer.writeRow(classificationToRow(c))
WriteRow(rs, i) == IF caller = "target" THEN Append(rs, i) ELSE rs

\* classifyComment resolves: pending.set(index, classification); await emitIfReady()
ClassifyOk(i) ==
    /\ UNCHANGED outsidePipeline
    /\ taskPc[i] = "classifying"
    /\ LET r == EmitIfReady(pending \cup {i}, nextEmitIndex, collected, callbackSeq)
       IN /\ pending' = r.pending
          /\ nextEmitIndex' = r.nextEmitIndex
          /\ collected' = r.collected
          /\ callbackSeq' = r.callbackSeq
          /\ rows' = IF r.suspended THEN WriteRow(rows, r.nextEmitIndex) ELSE rows
          /\ taskPc' = [taskPc EXCEPT ![i] =
                            IF r.suspended THEN "inCallback" ELSE "finishing"]
    /\ completionOrder' = Append(completionOrder, i)
    /\ UNCHANGED <<n, concurrency, hasCallback, shouldCollect, analyzePc, analyzeError,
                   returned, taskError, activeCount, caller, targetPc, writer>>

\* classifyComment throws (no parsed payload, a failed inference or cache call)
ClassifyFail(i) ==
    /\ UNCHANGED outsidePipeline
    /\ taskPc[i] = "classifying"
    /\ taskPc' = [taskPc EXCEPT ![i] = "failing"]
    /\ taskError' = [taskError EXCEPT ![i] = ClassifyError(i)]
    /\ UNCHANGED <<n, concurrency, hasCallback, shouldCollect, analyzePc, analyzeError,
                   returned, activeCount, pending, nextEmitIndex, collected,
                   callbackSeq, completionOrder, targetVars>>

\* Main stands for the body of analyze itself, whose final emitIfReady is a drain too.
Main == n
Drainers == 0 .. n

InCallback(d) == IF d = Main THEN analyzePc = "finalDrain" ELSE taskPc[d] = "inCallback"

\* the awaited onClassification returns inside the drain run by d (a task, or the
\* final drain of analyze): nextEmitIndex += 1, then the loop test again
CallbackReturn(d) ==
    /\ UNCHANGED outsidePipeline
    /\ InCallback(d)
    /\ LET r == EmitIfReady(pending, nextEmitIndex + 1, collected, callbackSeq)
       IN /\ pending' = r.pending
          /\ nextEmitIndex' = r.nextEmitIndex
          /\ collected' = r.collected
          /\ callbackSeq' = r.callbackSeq
          /\ rows' = IF r.suspended THEN WriteRow(rows, r.nextEmitIndex) ELSE rows
          /\ IF d = Main
             THEN /\ analyzePc' = IF r.suspended THEN "finalDrain" ELSE "resolved"
                  /\ returned' = IF r.suspended THEN returned
                                                ELSE ReturnValue(r.collected)
                  /\ UNCHANGED taskPc
             ELSE /\ taskPc' = [taskPc EXCEPT ![d] =
                                   IF r.suspended THEN "inCallback" ELSE "finishing"]
                  /\ UNCHANGED <<analyzePc, returned>>
    /\ UNCHANGED <<n, concurrency, hasCallback, shouldCollect, analyzeError,
                   taskError, activeCount, completionOrder,
                   caller, targetPc, writer>>

\* the awaited onClassification rejects: emitIfReady rejects and so does the task
\* (or analyze, in its final drain); nextEmitIndex keeps its value
CallbackFail(d) ==
    /\ UNCHANGED outsidePipeline
    /\ InCallback(d)
    /\ IF d = Main
       THEN /\ analyzePc' = "rejected"
            /\ analyzeError' = CallbackError(nextEmitIndex)
            /\ UNCHANGED <<taskPc, taskError>>
       ELSE /\ taskPc' = [taskPc EXCEPT ![d] = "failing"]
            /\ taskError' = [taskError EXCEPT ![d] = CallbackError(nextEmitIndex)]
            /\ UNCHANGED <<analyzePc, analyzeError>>
    /\ UNCHANGED <<n, concurrency, hasCallback, shouldCollect,
                   returned, activeCount, pending, nextEmitIndex, collected,
                   callbackSeq, completionOrder, targetVars>>

\* the task's promise fulfils; p-limit's next() frees the slot
TaskResolve(i) ==
    /\ UNCHANGED outsidePipeline
    /\ taskPc[i] = "finishing"
    /\ taskPc' = [taskPc EXCEPT ![i] = "resolved"]
    /\ activeCount' = activeCount - 1
    /\ UNCHANGED <<n, concurrency, hasCallback, shouldCollect, analyzePc, analyzeError,
                   returned, taskError, pending, nextEmitIndex, collected,
                   callbackSeq, completionOrder, targetVars>>

\* the task's promise rejects; p-limit's next() frees the slot; Promise.all rejects
TaskReject(i) ==
    /\ UNCHANGED outsidePipeline
    /\ taskPc[i] = "failing"
    /\ taskPc' = [taskPc EXCEPT ![i] = "rejected"]
    /\ activeCount' = activeCount - 1
    /\ LET o == PropagateRejection(analyzePc, analyzeError, taskError[i])
       IN analyzePc' = o[1] /\ analyzeError' = o[2]
    /\ UNCHANGED <<n, concurrency, hasCallback, shouldCollect,
                   returned, taskError, pending, nextEmitIndex, collected,
                   callbackSeq, completionOrder, targetVars>>

\* Promise.all(tasks) fulfils; await emitIfReady(); return
AllFulfilled ==
    /\ UNCHANGED outsidePipeline
    /\ analyzePc = "awaitAll"
    /\ \A i \in Indices : taskPc[i] = "resolved"
    /\ LET r == EmitIfReady(pending, nextEmitIndex, collected, callbackSeq)
       IN /\ pending' = r.pending
          /\ nextEmitIndex' = r.nextEmitIndex
          /\ collected' = r.collected
          /\ callbackSeq' = r.callbackSeq
          /\ rows' = IF r.suspended THEN WriteRow(rows, r.nextEmitIndex) ELSE rows
          /\ analyzePc' = IF r.suspended THEN "finalDrain" ELSE "resolved"
          /\ returned' = IF r.suspended THEN returned ELSE ReturnValue(r.collected)
    /\ UNCHANGED <<n, concurrency, hasCallback, shouldCollect, analyzeError,
                   taskPc, taskError, activeCount, completionOrder,
                   caller, targetPc, writer>>

\* ------------------------------------------------- analyze: sorted
\* the createdUtc values of the comments
SortTimes == {1, 2, 3}

\* the lists analyze may be called with: the i-th comment has id i
CommentLists ==
    UNION {[1 .. len -> SortTimes] : len \in 0 .. MaxComments}
AsComments(times) == [k \in 1 .. Len(times) |-> [id |-> k, createdUtc |-> times[k]]]

\* (mutant) the comparator of discoverCategories: oldest first
OldestFirst(a, b) == a.createdUtc - b.createdUtc

\* (a, b) => b.createdUtc - a.createdUtc
NewestFirst(a, b) == b.createdUtc - a.createdUtc

\* Array.prototype.sort is stable: an element goes behind every element placed
\* before it that the comparator does not put after it
RECURSIVE SortInsert(_, _)
SortInsert(list, x) ==
    IF list = <<>> THEN <<x>>
    ELSE LET last == list[Len(list)]
         IN  IF NewestFirst(last, x) > 0
             THEN Append(SortInsert(SubSeq(list, 1, Len(list) - 1), x), last)
             ELSE Append(list, x)

RECURSIVE SortComments(_)
SortComments(list) ==
    IF list = <<>> THEN <<>>
    ELSE SortInsert(SortComments(SubSeq(list, 1, Len(list) - 1)), list[Len(list)])

SortIdle == sortPc = "unused" /\ comments = <<>> /\ sorted = <<>>

InitSort ==
    /\ sortPc = "called"
    /\ \E times \in CommentLists : comments = AsComments(times)
    /\ sorted = <<>>

\* const sorted = [...comments].sort((a, b) => b.createdUtc - a.createdUtc)
SortStep ==
    /\ sortPc = "called"
    /\ sortPc' = "sorted"
    /\ sorted' = SortComments(comments)
    /\ UNCHANGED <<comments, outsideSort>>

\* ------------------------------------------------- analyze: categories
\* category slugs; a list of categories is modelled by the list of its slugs
Slugs == {"bug", "unrelated", "miscellaneous"}
SlugLists == UNION {[1 .. len -> Slugs] : len \in 0 .. MaxItems + 1}
NotAnArray == <<"{}">>

\* ensureMandatoryCategories(categories)
RECURSIVE PushMissing(_, _, _)
PushMissing(merged, existingSlugs, required) ==
    IF required = <<>> THEN merged
    ELSE PushMissing(IF required[1] \in existingSlugs THEN merged
                                                      ELSE Append(merged, required[1]),
                     existingSlugs, Tail(required))
EnsureMandatoryCategories(list) ==
    PushMissing(list, {list[k] : k \in 1 .. Len(list)}, <<"unrelated", "miscellaneous">>)

\* consolidateCategories, given what the consolidation call answered (nothing
\* is asked when there is no candidate)
ConsolidateCategories(answered) == EnsureMandatoryCategories(answered)

\* readCategories(filePath), given the parsed content of the file
ReadCategories(parsed) ==
    IF parsed = NotAnArray THEN [threw |-> TRUE, list |-> <<>>]
    ELSE [threw |-> FALSE, list |-> parsed]

CategoriesIdle ==
    catPc = "unused" /\ catSource = "" /\ catInput = <<>> /\ categories = <<>>

InitCategories ==
    /\ catPc = "start"
    /\ catSource \in {"discovery", "seed"}
    /\ catInput \in SlugLists \cup {NotAnArray}
    /\ catSource = "discovery" => catInput # NotAnArray
    /\ categories = <<>>

\* categories = options.seedCategories ?? (await this.discoverCategories(comments)),
\* the seed being what handleAnalyze read from the categories file
ChooseCategories ==
    /\ catPc = "start"
    /\ LET seed == ReadCategories(catInput)
       IN  IF catSource = "seed"
           THEN /\ catPc' = IF seed.threw THEN "threw" ELSE "classifying"
                /\ categories' = seed.list
           ELSE /\ catPc' = "classifying"
                /\ categories' = ConsolidateCategories(catInput)
    /\ UNCHANGED <<catSource, catInput, outsideCategories>>

\* ------------------------------------------------- analyzeTarget / processTarget
\* comments.length === 0: return before any writer exists
TargetNoComments ==
    /\ UNCHANGED outsidePipeline
    /\ targetPc = "start"
    /\ n = 0
    /\ targetPc' = "empty"
    /\ UNCHANGED <<analyzeVars, caller, writer, rows>>

\* const writer = await CsvStreamWriter.create(outputPath)
TargetCreateWriter ==
    /\ UNCHANGED outsidePipeline
    /\ targetPc = "start"
    /\ n > 0
    /\ writer' = "open"
    /\ targetPc' = "analyzing"
    /\ UNCHANGED <<analyzeVars, caller, rows>>

\* await analyzer.analyze(...) fulfilled; await writer.close()
TargetClose ==
    /\ UNCHANGED outsidePipeline
    /\ targetPc = "analyzing"
    /\ analyzePc = "resolved"
    /\ writer' = "closed"
    /\ targetPc' = "done"
    /\ UNCHANGED <<analyzeVars, caller, rows>>

\* await analyzer.analyze(...) rejected: the rejection leaves the function
TargetFail ==
    /\ UNCHANGED outsidePipeline
    /\ targetPc = "analyzing"
    /\ analyzePc = "rejected"
    /\ targetPc' = "failed"
    /\ UNCHANGED <<analyzeVars, caller, writer, rows>>

\* ------------------------------------------------------- utils/hash.ts
\* A JSON-like value is a node: a leaf (null, a number or a string, with its text),
\* an array (kids in element order) or an object (keys in insertion order, which is
\* the order of Object.entries for non-index keys, with kids the values).
Leaf(kind, text) == [t |-> kind, text |-> text, keys |-> <<>>, kids |-> <<>>]
Arr(items) == [t |-> "arr", text |-> "", keys |-> <<>>, kids |-> items]
Obj(ks, vs) == [t |-> "obj", text |-> "", keys |-> ks, kids |-> vs]

\* Two precomposed/decomposed spellings of one letter: distinct strings (distinct
\* property names) that are canonically equivalent.
EAcute == "e-acute as U+00E9"
EPlusAcute == "e-acute as U+0065 U+0301"
ObjectKeys == {"a", EAcute, EPlusAcute}

\* The keys the model uses, in the order of the collation localeCompare compares by:
\* one class per position.  Canonically equivalent strings are one class:
\* localeCompare returns 0 for them (ECMA-262, String.prototype.localeCompare).
CollationOrder == << {"a"}, {"category"}, {"commentId"}, {EAcute, EPlusAcute},
                     {"method"}, {"type"}, {"url"} >>
CollationRank(k) == CHOOSE r \in 1 .. Len(CollationOrder) : k \in CollationOrder[r]

\* a.localeCompare(b): negative, zero or positive
LocaleCompare(a, b) ==
    IF CollationRank(a) < CollationRank(b) THEN -1
    ELSE IF CollationRank(a) > CollationRank(b) THEN 1
    ELSE 0

\* (mutant) a comparator that never reorders
CompareNothing(a, b) == 0

\* the comparator handed to sort: ([a], [b]) => a.localeCompare(b)
EntryCompare(a, b) == LocaleCompare(a, b)

\* Array.prototype.sort is stable: the positions 1..Len(ks) ordered by the
\* comparator, ties in their original order (insertion of each position in turn).
RECURSIVE InsertSorted(_, _, _)
InsertSorted(ks, order, pos) ==
    IF order = <<>> THEN <<pos>>
    ELSE IF EntryCompare(ks[pos], ks[order[Len(order)]]) < 0
         THEN Append(InsertSorted(ks, SubSeq(order, 1, Len(order) - 1), pos),
                     order[Len(order)])
         ELSE Append(order, pos)

RECURSIVE SortedPositions(_, _)
SortedPositions(ks, upto) ==
    IF upto = 0 THEN <<>>
    ELSE InsertSorted(ks, SortedPositions(ks, upto - 1), upto)

\* parts.join(',') over sequences of tokens
RECURSIVE Join(_)
Join(parts) ==
    IF parts = <<>> THEN <<>>
    ELSE IF Len(parts) = 1 THEN parts[1]
    ELSE parts[1] \o <<",">> \o Join(Tail(parts))

\* JSON.stringify of a string: the text in quotes
StringifyString(text) == <<"\"", text, "\"">>

\* JSON.stringify of a leaf
StringifyLeaf(v) == IF v.t = "str" THEN StringifyString(v.text) ELSE <<v.text>>

\* canonicalize(value): the canonical text, as a sequence of tokens
RECURSIVE Canonicalize(_)
Canonicalize(v) ==
    IF v.t \notin {"arr", "obj"} THEN StringifyLeaf(v)
    ELSE IF v.t = "arr"
    THEN <<"[">> \o Join([k \in 1 .. Len(v.kids) |-> Canonicalize(v.kids[k])]) \o <<"]">>
    ELSE LET order == SortedPositions(v.keys, Len(v.keys))
         IN <<"{">>
            \o Join([k \in 1 .. Len(order) |->
                        StringifyString(v.keys[order[k]]) \o <<":">>
                        \o Canonicalize(v.kids[order[k]])])
            \o <<"}">>

\* createHash('sha256').update(text).digest('hex'): a digest that tells two texts
\* apart (collisions aside)
Digest(text) == <<"sha256">> \o text

ChecksumFrom(v) == Digest(Canonicalize(v))

\* Structural equality of two JSON values: the same leaf, the same elements in the
\* same order, or the same keys with equal values, whatever the insertion order.
RECURSIVE StructEq(_, _)
StructEq(v, w) ==
    IF v.t # w.t THEN FALSE
    ELSE IF v.t = "arr"
    THEN /\ Len(v.kids) = Len(w.kids)
         /\ \A k \in 1 .. Len(v.kids) : StructEq(v.kids[k], w.kids[k])
    ELSE IF v.t = "obj"
    THEN /\ {v.keys[k] : k \in 1 .. Len(v.keys)} = {w.keys[k] : k \in 1 .. Len(w.keys)}
         /\ \A k \in 1 .. Len(v.keys) : \A m \in 1 .. Len(w.keys) :
                v.keys[k] = w.keys[m] => StructEq(v.kids[k], w.kids[m])
    ELSE v.text = w.text

\* The values checksumFrom is tried on: leaves, arrays and objects of leaves, and
\* the same one level deeper.
Leaves == {Leaf("num", "1"), Leaf("num", "2"), Leaf("str", "1")}
SeqsUpTo(S, m) == UNION {[1 .. k -> S] : k \in 0 .. m}
DistinctKeySeqs == {ks \in SeqsUpTo(ObjectKeys, MaxKeys) :
                      \A i, j \in 1 .. Len(ks) : i # j => ks[i] # ks[j]}
FlatArrays == {Arr(items) : items \in SeqsUpTo({Leaf("num", "1"), Leaf("num", "2")}, MaxItems)}
FlatObjects == UNION {{Obj(ks, vs) : vs \in [1 .. Len(ks) -> {Leaf("num", "1"), Leaf("num", "2")}]}
                         : ks \in DistinctKeySeqs}
NestedValues == {Obj(<<"a">>, <<v>>) : v \in FlatObjects \cup FlatArrays}
                   \cup {Arr(<<v>>) : v \in FlatObjects}
JsonValues == Leaves \cup FlatArrays \cup FlatObjects \cup NestedValues

NoDigest == <<>>

HashIdle ==
    /\ hashPc = "idle"
    /\ hashValue1 = Leaf("null", "null")
    /\ hashValue2 = Leaf("null", "null")
    /\ hashDigest1 = NoDigest
    /\ hashDigest2 = NoDigest

InitHash ==
    /\ hashPc = "start"
    /\ hashValue1 \in JsonValues
    /\ hashValue2 \in JsonValues
    /\ hashDigest1 = NoDigest
    /\ hashDigest2 = NoDigest

HashFirst ==
    /\ hashPc = "start"
    /\ hashDigest1' = ChecksumFrom(hashValue1)
    /\ hashPc' = "one"
    /\ UNCHANGED <<hashValue1, hashValue2, hashDigest2, outsideHash>>

HashSecond ==
    /\ hashPc = "one"
    /\ hashDigest2' = ChecksumFrom(hashValue2)
    /\ hashPc' = "both"
    /\ UNCHANGED <<hashValue1, hashValue2, hashDigest1, outsideHash>>

\* ---------------------------------------------------- LlmCache.getOrCompute
\* JSON.stringify(result): like canonicalize, but the keys stay in insertion order
RECURSIVE JsonStringify(_)
JsonStringify(v) ==
    IF v.t \notin {"arr", "obj"} THEN StringifyLeaf(v)
    ELSE IF v.t = "arr"
    THEN <<"[">> \o Join([k \in 1 .. Len(v.kids) |-> JsonStringify(v.kids[k])]) \o <<"]">>
    ELSE <<"{">>
         \o Join([k \in 1 .. Len(v.keys) |->
                     StringifyString(v.keys[k]) \o <<":">> \o JsonStringify(v.kids[k])])
         \o <<"}">>

\* The request payloads: a classification request for comment c1 with its keys in
\* two insertion orders, and one for comment c2.
MemoPayloads ==
    { Obj(<<"type", "commentId">>, <<Leaf("str", "classification"), Leaf("str", "c1")>>),
      Obj(<<"commentId", "type">>, <<Leaf("str", "c1"), Leaf("str", "classification")>>),
      Obj(<<"type", "commentId">>, <<Leaf("str", "classification"), Leaf("str", "c2")>>) }

\* What the inference service may answer (the parsed payload)
MemoResults ==
    { Obj(<<"category">>, <<Leaf("str", "bug")>>),
      Obj(<<"category">>, <<Leaf("str", "praise")>>) }

\* JSON.parse(cached.body)
JsonParse(body) == CHOOSE v \in MemoResults : JsonStringify(v) = body

CallIds == 1 .. MaxCalls
Absent == <<>>              \* cache.read returned null
Unread == <<"unread">>      \* cache.read has not returned
NoValue == Leaf("null", "undefined")

\* every checksum a call may use, under the comparator in use
MemoChecksums == {ChecksumFrom(p) : p \in MemoPayloads}

\* (mutant) the cached entry is ignored
IsHitNever(cached) == FALSE

\* if (cached)
IsHit(cached) == cached # Absent

MemoIdle ==
    /\ memoCache = <<>>
    /\ callPc = <<>>
    /\ callPayload = <<>>
    /\ callRead = <<>>
    /\ callValue = <<>>
    /\ callComputes = <<>>
    /\ callWrites = <<>>
    /\ memoWrites = {}
    /\ overlapped = {}
    /\ callComment = <<>> /\ callPosition = <<>> /\ callWarm = <<>>

InitMemo ==
    /\ memoCache = [k \in MemoChecksums |-> Absent]
    /\ callPc = [c \in CallIds |-> "idle"]
    /\ callPayload = [c \in CallIds |-> NoValue]
    /\ callRead = [c \in CallIds |-> Unread]
    /\ callValue = [c \in CallIds |-> NoValue]
    /\ callComputes = [c \in CallIds |-> 0]
    /\ callWrites = [c \in CallIds |-> 0]
    /\ memoWrites = {}
    /\ overlapped = {}
    /\ callComment = [c \in CallIds |-> ""]
    /\ callPosition = [c \in CallIds |-> <<0, 0>>]
    /\ callWarm = [c \in CallIds |-> FALSE]

\* the calls between a missed read and the end of their write
Computing(c) == callPc[c] \in {"computing", "writing"}

\* getOrCompute(payload, compute): checksum = checksumFrom(payload);
\* await this.cache.read(namespace, checksum)
GetOrCompute(c, p) ==
    /\ callPc[c] = "idle"
    /\ \A b \in CallIds : b < c => callPc[b] # "idle"
    /\ callPc' = [callPc EXCEPT ![c] = "reading"]
    /\ callPayload' = [callPayload EXCEPT ![c] = p]
    /\ UNCHANGED <<memoCache, callRead, callValue, callComputes, callWrites,
                   memoWrites, overlapped, callComment, callPosition, callWarm, outsideMemo>>

\* cache.read returns: on a hit return JSON.parse(cached.body), on a miss call compute
CacheReadDone(c) ==
    /\ callPc[c] = "reading"
    /\ LET cached == memoCache[ChecksumFrom(callPayload[c])]
       IN /\ callRead' = [callRead EXCEPT ![c] = cached]
          /\ IF IsHit(cached)
             THEN /\ callPc' = [callPc EXCEPT ![c] = "returned"]
                  /\ callValue' = [callValue EXCEPT ![c] = JsonParse(cached)]
                  /\ UNCHANGED <<callComputes, overlapped>>
             ELSE /\ callPc' = [callPc EXCEPT ![c] = "computing"]
                  /\ callComputes' = [callComputes EXCEPT ![c] = @ + 1]
                  /\ overlapped' =
                        IF \E b \in CallIds \ {c} :
                              Computing(b) /\ StructEq(callPayload[b], callPayload[c])
                        THEN overlapped \cup {callPayload[c]}
                        ELSE overlapped
                  /\ UNCHANGED callValue
    /\ UNCHANGED <<memoCache, callPayload, callWrites, memoWrites, callComment, callPosition, callWarm, outsideMemo>>

\* compute() resolves with a parsed payload; await this.cache.write(...)
ComputeOk(c, r) ==
    /\ callPc[c] = "computing"
    /\ callPc' = [callPc EXCEPT ![c] = "writing"]
    /\ callValue' = [callValue EXCEPT ![c] = r]
    /\ UNCHANGED <<memoCache, callPayload, callRead, callComputes, callWrites,
                   memoWrites, overlapped, callComment, callPosition, callWarm, outsideMemo>>

\* (mutant) the rejection of compute is swallowed and the write goes ahead
ComputeErrorSwallowed(pc) == "writing"

\* `await compute()` stands in no try block: its rejection is getOrCompute's,
\* and the statements after it are not run
ComputeRejects(pc) == "threw"

\* compute() throws: getOrCompute rejects, nothing is written
ComputeFail(c) ==
    /\ callPc[c] = "computing"
    /\ callPc' = [callPc EXCEPT ![c] = ComputeRejects(@)]
    /\ UNCHANGED <<memoCache, callPayload, callRead, callValue, callComputes,
                   callWrites, memoWrites, overlapped, callComment, callPosition, callWarm, outsideMemo>>

\* cache.write({checksum, body: JSON.stringify(result)}) completes; return result
CacheWriteDone(c) ==
    /\ callPc[c] = "writing"
    /\ LET checksum == ChecksumFrom(callPayload[c])
           body == JsonStringify(callValue[c])
       IN /\ memoCache' = [memoCache EXCEPT ![checksum] = body]
          /\ memoWrites' = memoWrites \cup
                             {[call |-> c, checksum |-> checksum, body |-> body]}
    /\ callWrites' = [callWrites EXCEPT ![c] = @ + 1]
    /\ callPc' = [callPc EXCEPT ![c] = "returned"]
    /\ UNCHANGED <<callPayload, callRead, callValue, callComputes, overlapped,
                   callComment, callPosition, callWarm, outsideMemo>>

\* cache.read rejected (an I/O error other than ENOENT)
ReadFailed == <<"failed">>

\* (mutant) a failed cache read is taken for a miss
ReadErrorAsMiss(pc) == "computing"

\* `await this.cache.read(...)` stands in no try block: its rejection is
\* getOrCompute's, and compute is not reached
ReadRejects(pc) == "threw"

\* cache.read rejects
CacheReadThrows(c) ==
    /\ callPc # <<>> /\ callPc[c] = "reading"
    /\ callRead' = [callRead EXCEPT ![c] = ReadFailed]
    /\ callPc' = [callPc EXCEPT ![c] = ReadRejects(@)]
    /\ UNCHANGED <<memoCache, callPayload, callValue, callComputes, callWrites,
                   memoWrites, overlapped, callComment, callPosition, callWarm,
                   outsideMemo>>

\* cache.write rejects: getOrCompute rejects although compute resolved; whether
\* the entry can be read afterwards depends on how far the write came
CacheWriteThrows(c, stored) ==
    /\ callPc # <<>> /\ callPc[c] = "writing"
    /\ memoCache' = IF stored
                    THEN [memoCache EXCEPT ![ChecksumFrom(callPayload[c])] =
                                               JsonStringify(callValue[c])]
                    ELSE memoCache
    /\ callWrites' = [callWrites EXCEPT ![c] = @ + 1]
    /\ callPc' = [callPc EXCEPT ![c] = "threw"]
    /\ UNCHANGED <<callPayload, callRead, callValue, callComputes, memoWrites,
                   overlapped, callComment, callPosition, callWarm, outsideMemo>>

\* ------------------------------------------ CommentAnalyzer.classifyComment
\* the comments classified, and the (index, total) analyze may pass for one:
\* the first of one comment, the second of two
ClassifyComments == {"c1", "c2"}
ClassifyPositions == {<<1, 1>>, <<2, 2>>}

\* (mutant) the position of the comment is part of the request payload
CachePayloadWithPosition(comment, index, total) ==
    Obj(<<"type", "commentId">>,
        <<Leaf("str", "classification"),
          Leaf("str", comment \o " " \o ToString(index) \o "/" \o ToString(total))>>)

\* cachePayload: the type and what identifies the comment, the model, the product
\* and the categories; index and total are in the prompt only
CachePayload(comment, index, total) ==
    Obj(<<"type", "commentId">>, <<Leaf("str", "classification"), Leaf("str", comment)>>)

\* prompt: the text sent to the inference service on a miss; the comment's
\* position is interpolated next to what comes from the comment itself
ClassifyPrompt(comment, index, total) ==
    "Comment " \o ToString(index) \o " of " \o ToString(total) \o ". Body: " \o comment

\* the parsed payload the inference service answers for a comment
ClassifyResult(comment) ==
    Obj(<<"category">>, <<Leaf("str", IF comment = "c1" THEN "bug" ELSE "praise")>>)

ClassifyPayloads ==
    {CachePayload(comment, position[1], position[2]) :
        comment \in ClassifyComments, position \in ClassifyPositions}

\* an analyzer over an empty cache
InitClassify ==
    /\ memoCache = [k \in {ChecksumFrom(p) : p \in ClassifyPayloads} |-> Absent]
    /\ callPc = [c \in CallIds |-> "idle"]
    /\ callPayload = [c \in CallIds |-> NoValue]
    /\ callRead = [c \in CallIds |-> Unread]
    /\ callValue = [c \in CallIds |-> NoValue]
    /\ callComputes = [c \in CallIds |-> 0]
    /\ callWrites = [c \in CallIds |-> 0]
    /\ memoWrites = {}
    /\ overlapped = {}
    /\ callComment = [c \in CallIds |-> ""]
    /\ callPosition = [c \in CallIds |-> <<0, 0>>]
    /\ callWarm = [c \in CallIds |-> FALSE]

\* classifyComment(comment, categories, index, total) up to its await of
\* this.llmCache.getOrCompute(cachePayload, ...), which awaits the cache read
ClassifyComment(c, comment, index, total) ==
    /\ callPc[c] = "idle"
    /\ \A b \in CallIds : b < c => callPc[b] # "idle"
    /\ callPc' = [callPc EXCEPT ![c] = "reading"]
    /\ callPayload' = [callPayload EXCEPT ![c] = CachePayload(comment, index, total)]
    /\ callComment' = [callComment EXCEPT ![c] = comment]
    /\ callPosition' = [callPosition EXCEPT ![c] = <<index, total>>]
    /\ callWarm' = [callWarm EXCEPT ![c] =
                      \E b \in CallIds : callComment[b] = comment /\ callPc[b] = "returned"]
    /\ UNCHANGED <<memoCache, callRead, callValue, callComputes, callWrites,
                   memoWrites, overlapped, outsideMemo>>

\* ------------------------------------------------------------- FileCache
\* A key is (namespace, checksum); paths(namespace, checksum) gives the directory
\* <baseDir>/<namespace> and the two files <checksum>.body and <checksum>.meta.json
\* in it.  Checksums are hex digests, so distinct keys have distinct files.
FileKeys == {<<"nsA", "k1">>, <<"nsA", "k2">>, <<"nsB", "k1">>}
DirOf(key) == key[1]

\* Texts are sequences of code points, files hold bytes.  The bodies this program
\* caches are JSON.stringify output and response.text(), both well-formed Unicode.
FileBodies == {<<65>>, <<233, 65>>}
MetaText == <<123, 125>>    \* JSON.stringify(metadata, null, 2)

\* writeFile(path, text): the text encoded as UTF-8
Utf8EncodePoint(cp) == IF cp < 128 THEN <<cp>> ELSE <<192 + (cp \div 64), 128 + (cp % 64)>>
RECURSIVE Utf8Encode(_)
Utf8Encode(text) ==
    IF text = <<>> THEN <<>> ELSE Utf8EncodePoint(Head(text)) \o Utf8Encode(Tail(text))

\* readFile(path, 'utf8'): a malformed byte decodes to U+FFFD
RECURSIVE Utf8Decode(_)
Utf8Decode(bytes) ==
    IF bytes = <<>> THEN <<>>
    ELSE IF bytes[1] < 128 THEN <<bytes[1]>> \o Utf8Decode(Tail(bytes))
    ELSE IF /\ bytes[1] >= 194 /\ bytes[1] < 224 /\ Len(bytes) >= 2
            /\ bytes[2] >= 128 /\ bytes[2] < 192
         THEN <<(bytes[1] - 192) * 64 + (bytes[2] - 128)>> \o Utf8Decode(Tail(Tail(bytes)))
    ELSE <<65533>> \o Utf8Decode(Tail(bytes))

NoFile == [exists |-> FALSE, bytes |-> <<>>]
FileOf(bytes) == [exists |-> TRUE, bytes |-> bytes]
Truncated == FileOf(<<>>)   \* a file opened for writing and not yet written

\* two callers, each doing one operation after another
Callers == {"p", "q"}
NoKey == <<"", "">>
NotRead == [code |-> "none", text |-> <<>>]
Pending == [kind |-> "pending", body |-> <<>>]
Null == [kind |-> "null", body |-> <<>>]        \* read returned null
Raised == [kind |-> "raised", body |-> <<>>]    \* read threw
Entry(body) == [kind |-> "entry", body |-> body]

\* (mutant) every read error is rethrown
RethrowAll(code) == Raised

\* catch (error): ENOENT gives null, anything else is rethrown
OnReadError(code) == IF code = "ENOENT" THEN Null ELSE Raised

\* fs.readFile(path, 'utf8') on the current file system
ReadFile(file) ==
    IF file.exists THEN [code |-> "ok", text |-> Utf8Decode(file.bytes)]
    ELSE [code |-> "ENOENT", text |-> <<>>]

\* JSON.parse(metaRaw) accepts the text write stored and rejects an empty one
JsonParses(metaRaw) == metaRaw = MetaText

\* the outcome of read once both readFile calls have settled:
\* an ENOENT, a metadata text JSON.parse rejects, or the entry
ReadOutcome(body, meta) ==
    IF body.code = "ENOENT" \/ meta.code = "ENOENT" THEN OnReadError("ENOENT")
    ELSE IF ~JsonParses(meta.text) THEN OnReadError("SyntaxError")
    ELSE Entry(body.text)

Writing(o) == opKind[o] = "write" /\ opPc[o] \in {"mkdir", "writing"}
Reading(o) == opKind[o] = "read" /\ opPc[o] = "reading"

FileIdle ==
    /\ dirs = {} /\ fileBody = <<>> /\ fileMeta = <<>>
    /\ opPc = <<>> /\ opKind = <<>> /\ opKey = <<>> /\ opBody = <<>>
    /\ opBodyStep = <<>> /\ opMetaStep = <<>> /\ opBodyRead = <<>> /\ opMetaRead = <<>>
    /\ opResult = <<>> /\ lastWrite = <<>> /\ prevWrite = <<>> /\ opLast = <<>>
    /\ opsStarted = 0 /\ writeOverlap = {} /\ readOverlap = {}

\* an empty cache directory
InitFile ==
    /\ dirs = {}
    /\ fileBody = [k \in FileKeys |-> NoFile]
    /\ fileMeta = [k \in FileKeys |-> NoFile]
    /\ opPc = [o \in Callers |-> "idle"]
    /\ opKind = [o \in Callers |-> "none"]
    /\ opKey = [o \in Callers |-> NoKey]
    /\ opBody = [o \in Callers |-> <<>>]
    /\ opBodyStep = [o \in Callers |-> "todo"]
    /\ opMetaStep = [o \in Callers |-> "todo"]
    /\ opBodyRead = [o \in Callers |-> NotRead]
    /\ opMetaRead = [o \in Callers |-> NotRead]
    /\ opResult = [o \in Callers |-> Pending]
    /\ lastWrite = [k \in FileKeys |-> Null]
    /\ prevWrite = [k \in FileKeys |-> Null]
    /\ opLast = [o \in Callers |-> Null]
    /\ opsStarted = 0
    /\ writeOverlap = {}
    /\ readOverlap = {}

\* a caller between two operations, with operations left to call
NextOp(o) == opPc[o] \in {"idle", "done"} /\ opsStarted < MaxOps

\* the locals of a call that begins
BeginOp(o, kind, key, body) ==
    /\ opKind' = [opKind EXCEPT ![o] = kind]
    /\ opKey' = [opKey EXCEPT ![o] = key]
    /\ opBody' = [opBody EXCEPT ![o] = body]
    /\ opBodyStep' = [opBodyStep EXCEPT ![o] = "todo"]
    /\ opMetaStep' = [opMetaStep EXCEPT ![o] = "todo"]
    /\ opBodyRead' = [opBodyRead EXCEPT ![o] = NotRead]
    /\ opMetaRead' = [opMetaRead EXCEPT ![o] = NotRead]
    /\ opResult' = [opResult EXCEPT ![o] = Pending]
    /\ opsStarted' = opsStarted + 1

\* write(namespace, entry): await fs.mkdir(dir, { recursive: true })
WriteBegin(o, key, body) ==
    /\ NextOp(o)
    /\ opPc' = [opPc EXCEPT ![o] = "mkdir"]
    /\ BeginOp(o, "write", key, body)
    /\ writeOverlap' = IF \E b \in Callers : Writing(b) /\ opKey[b] = key
                       THEN writeOverlap \cup {key} ELSE writeOverlap
    /\ readOverlap' = (readOverlap \ {o})
                        \cup {b \in Callers : Reading(b) /\ opKey[b] = key}
    /\ UNCHANGED <<dirs, fileBody, fileMeta, lastWrite, prevWrite, opLast, outsideFile>>

\* mkdir done; Promise.all([writeFile(bodyPath), writeFile(metaPath)]) is issued
MkdirDone(o) ==
    /\ opKind[o] = "write" /\ opPc[o] = "mkdir"
    /\ dirs' = dirs \cup {DirOf(opKey[o])}
    /\ opPc' = [opPc EXCEPT ![o] = "writing"]
    /\ UNCHANGED <<fileBody, fileMeta, opKind, opKey, opBody, opBodyStep, opMetaStep,
                   opBodyRead, opMetaRead, opResult, lastWrite, prevWrite, opLast,
                   opsStarted, writeOverlap, readOverlap, outsideFile>>

\* writeFile(bodyPath): the file is opened with flag 'w' (created or truncated)
BodyOpen(o) ==
    /\ opKind[o] = "write" /\ opPc[o] = "writing" /\ opBodyStep[o] = "todo"
    /\ DirOf(opKey[o]) \in dirs
    /\ fileBody' = [fileBody EXCEPT ![opKey[o]] = Truncated]
    /\ opBodyStep' = [opBodyStep EXCEPT ![o] = "open"]
    /\ UNCHANGED <<dirs, fileMeta, opPc, opKind, opKey, opBody, opMetaStep,
                   opBodyRead, opMetaRead, opResult, lastWrite, prevWrite, opLast,
                   opsStarted, writeOverlap, readOverlap, outsideFile>>

\* writeFile(bodyPath): the data is written and the file closed
BodyWrite(o) ==
    /\ opKind[o] = "write" /\ opPc[o] = "writing" /\ opBodyStep[o] = "open"
    /\ fileBody' = [fileBody EXCEPT ![opKey[o]] = FileOf(Utf8Encode(opBody[o]))]
    /\ opBodyStep' = [opBodyStep EXCEPT ![o] = "done"]
    /\ UNCHANGED <<dirs, fileMeta, opPc, opKind, opKey, opBody, opMetaStep,
                   opBodyRead, opMetaRead, opResult, lastWrite, prevWrite, opLast,
                   opsStarted, writeOverlap, readOverlap, outsideFile>>

\* writeFile(metaPath), opening the file
MetaOpen(o) ==
    /\ opKind[o] = "write" /\ opPc[o] = "writing" /\ opMetaStep[o] = "todo"
    /\ DirOf(opKey[o]) \in dirs
    /\ fileMeta' = [fileMeta EXCEPT ![opKey[o]] = Truncated]
    /\ opMetaStep' = [opMetaStep EXCEPT ![o] = "open"]
    /\ UNCHANGED <<dirs, fileBody, opPc, opKind, opKey, opBody, opBodyStep,
                   opBodyRead, opMetaRead, opResult, lastWrite, prevWrite, opLast,
                   opsStarted, writeOverlap, readOverlap, outsideFile>>

\* writeFile(metaPath), writing the stringified metadata
MetaWrite(o) ==
    /\ opKind[o] = "write" /\ opPc[o] = "writing" /\ opMetaStep[o] = "open"
    /\ fileMeta' = [fileMeta EXCEPT ![opKey[o]] = FileOf(Utf8Encode(MetaText))]
    /\ opMetaStep' = [opMetaStep EXCEPT ![o] = "done"]
    /\ UNCHANGED <<dirs, fileBody, opPc, opKind, opKey, opBody, opBodyStep,
                   opBodyRead, opMetaRead, opResult, lastWrite, prevWrite, opLast,
                   opsStarted, writeOverlap, readOverlap, outsideFile>>

\* both writeFile calls resolved: write returns
WriteDone(o) ==
    /\ opKind[o] = "write" /\ opPc[o] = "writing"
    /\ opBodyStep[o] = "done" /\ opMetaStep[o] = "done"
    /\ opPc' = [opPc EXCEPT ![o] = "done"]
    /\ lastWrite' = [lastWrite EXCEPT ![opKey[o]] = Entry(opBody[o])]
    /\ prevWrite' = [prevWrite EXCEPT ![opKey[o]] = lastWrite[opKey[o]]]
    /\ UNCHANGED <<dirs, fileBody, fileMeta, opKind, opKey, opBody, opBodyStep,
                   opMetaStep, opBodyRead, opMetaRead, opResult, opLast, opsStarted,
                   writeOverlap, readOverlap, outsideFile>>

\* read(namespace, checksum): Promise.all([readFile(bodyPath), readFile(metaPath)])
ReadBegin(o, key) ==
    /\ NextOp(o)
    /\ opPc' = [opPc EXCEPT ![o] = "reading"]
    /\ BeginOp(o, "read", key, <<>>)
    /\ readOverlap' = IF \E b \in Callers : Writing(b) /\ opKey[b] = key
                      THEN readOverlap \cup {o} ELSE readOverlap \ {o}
    /\ opLast' = [opLast EXCEPT ![o] = lastWrite[key]]
    /\ UNCHANGED <<dirs, fileBody, fileMeta, lastWrite, prevWrite, writeOverlap,
                   outsideFile>>

\* readFile(bodyPath, 'utf8') settles
ReadBodyFile(o) ==
    /\ Reading(o) /\ opBodyStep[o] = "todo"
    /\ opBodyRead' = [opBodyRead EXCEPT ![o] = ReadFile(fileBody[opKey[o]])]
    /\ opBodyStep' = [opBodyStep EXCEPT ![o] = "done"]
    /\ UNCHANGED <<dirs, fileBody, fileMeta, opPc, opKind, opKey, opBody, opMetaStep,
                   opMetaRead, opResult, lastWrite, prevWrite, opLast, opsStarted,
                   writeOverlap, readOverlap, outsideFile>>

\* readFile(metaPath, 'utf8') settles
ReadMetaFile(o) ==
    /\ Reading(o) /\ opMetaStep[o] = "todo"
    /\ opMetaRead' = [opMetaRead EXCEPT ![o] = ReadFile(fileMeta[opKey[o]])]
    /\ opMetaStep' = [opMetaStep EXCEPT ![o] = "done"]
    /\ UNCHANGED <<dirs, fileBody, fileMeta, opPc, opKind, opKey, opBody, opBodyStep,
                   opBodyRead, opResult, lastWrite, prevWrite, opLast, opsStarted,
                   writeOverlap, readOverlap, outsideFile>>

\* both readFile calls settled: read returns the entry or null, or throws
ReadDone(o) ==
    /\ Reading(o) /\ opBodyStep[o] = "done" /\ opMetaStep[o] = "done"
    /\ opResult' = [opResult EXCEPT ![o] = ReadOutcome(opBodyRead[o], opMetaRead[o])]
    /\ opPc' = [opPc EXCEPT ![o] = "done"]
    /\ UNCHANGED <<dirs, fileBody, fileMeta, opKind, opKey, opBody, opBodyStep,
                   opMetaStep, opBodyRead, opMetaRead, lastWrite, prevWrite, opLast,
                   opsStarted, writeOverlap, readOverlap, outsideFile>>

\* -------------------------------------------------------- PullpushClient
MIN_CURSOR_INCREMENT == 1

EpochRange(start, end) == [start |-> start, end |-> end]

\* what splitIntoMonthlyRanges(startEpoch, endEpoch, monthsPerBatch) may give
\* fetchAll: no range, one range, or two adjacent ranges (epochs scaled down)
RangeChoices ==
    { <<>>, <<EpochRange(0, 2)>>, <<EpochRange(0, 1), EpochRange(1, 2)>> }

\* new PullpushClient(options)
ClientOptions ==
    [ranges : RangeChoices, pageSize : {1, 2}, maxRetries : {1, 3},
     retryBackoffMs : {5}, requestSpacingMs : {0, 7}]

Comment(id, createdUtc) == [id |-> id, createdUtc |-> createdUtc]
PagePayload(data) == [error |-> "", data |-> data]
ErrorPayload(message) == [error |-> message, data |-> <<>>]

\* the payloads the service may answer a page request with, whatever the request
PagePayloads ==
    { PagePayload(<<>>),
      PagePayload(<<Comment("c1", 0)>>),
      PagePayload(<<Comment("c1", 0), Comment("c2", 1)>>),
      PagePayload(<<Comment("c2", 1), Comment("c3", 1)>>),
      ErrorPayload("boom") }

\* The comments of a service that answers a page request with the first `size`
\* comments of the window asked for, in ascending created_utc order.  Whether a
\* comment created at `after` itself is in the window is the service's choice.
SourceComments == <<Comment("c1", 0), Comment("c2", 1), Comment("c3", 1)>>
ServiceModes == {"any", "inclusive", "exclusive"}

InWindow(comment, after, before, mode) ==
    /\ comment.createdUtc < before
    /\ IF mode = "inclusive" THEN comment.createdUtc >= after
                             ELSE comment.createdUtc > after

SourcePage(after, before, size, mode) ==
    LET window == SelectSeq(SourceComments, LAMBDA c : InWindow(c, after, before, mode))
    IN  SubSeq(window, 1, IF Len(window) < size THEN Len(window) ELSE size)

SourcePayloads ==
    { PagePayload(SourcePage(after, before, size, mode)) :
        after \in 0 .. 2, before \in 0 .. 2, size \in {1, 2},
        mode \in {"inclusive", "exclusive"} }

KnownPayloads == PagePayloads \cup SourcePayloads

\* what a success response to the page request (after, before, size) may carry
ServicePayloads(mode, after, before, size) ==
    IF mode = "any" THEN PagePayloads
    ELSE {PagePayload(SourcePage(after, before, size, mode))}

\* the text of a response body carrying a payload
RECURSIVE CommentsText(_)
CommentsText(data) ==
    IF data = <<>> THEN <<>>
    ELSE <<"{", "id", Head(data).id, "created_utc", ToString(Head(data).createdUtc), "}">>
         \o CommentsText(Tail(data))
PageText(payload) ==
    IF payload.error # "" THEN <<"{", "error", payload.error, "}">>
    ELSE <<"{", "data", "[">> \o CommentsText(payload.data) \o <<"]", "}">>

\* JSON.parse(text) as PullpushResponse
PageParse(body) == CHOOSE payload \in KnownPayloads : PageText(payload) = body

\* response.headers.get('retry-after'): null, seconds, or something else
NoHeader == "<null>"
RetryAfterHeaders == {NoHeader, "1", "soon"}

\* Number(header): Number(null) is 0, Number("1") is 1, Number("soon") is NaN
HeaderNumber(header) ==
    IF header = NoHeader THEN [finite |-> TRUE, value |-> 0]
    ELSE IF header = "1" THEN [finite |-> TRUE, value |-> 1]
    ELSE [finite |-> FALSE, value |-> 0]

\* what fetch(url) may resolve with
Responses ==
    [status : {200}, retryAfter : {NoHeader}, payload : KnownPayloads]
        \cup [status : {429}, retryAfter : RetryAfterHeaders, payload : {PagePayload(<<>>)}]
        \cup [status : {500}, retryAfter : {NoHeader}, payload : {PagePayload(<<>>)}]

NoResponse == [status |-> 0, retryAfter |-> NoHeader]

\* the url of a page request; product and sort are the same in all of them
PageUrl(after, before) ==
    "?q=product&size=" \o ToString(client.pageSize) \o "&after=" \o ToString(after)
        \o "&before=" \o ToString(before)

\* checksumFrom({ url, method: 'GET' })
PageChecksum(after, before) ==
    ChecksumFrom(Obj(<<"url", "method">>,
                     <<Leaf("str", PageUrl(after, before)), Leaf("str", "GET")>>))

Epochs == 0 .. 2
PageChecksums == {PageChecksum(a, b) : a \in Epochs, b \in Epochs}

\* (mutant) the cached page is ignored
PageHitNever(cached) == FALSE

\* if (cached)
PageHit(cached) == cached # Absent

\* (mutant) nothing is stored
CacheWriteNothing(cache, checksum, body) == cache

\* this.cache.write(this.namespace, { checksum, body, metadata })
CacheWrite(cache, checksum, body) == [cache EXCEPT ![checksum] = body]

\* (mutant) every comment is added to the map
DedupAppend(map, comment) == Append(map, comment)

\* dedup.set(comment.id, comment): a known id keeps its place and gets the value
DedupSet(map, comment) ==
    IF \E k \in 1 .. Len(map) : map[k].id = comment.id
    THEN [k \in 1 .. Len(map) |-> IF map[k].id = comment.id THEN comment ELSE map[k]]
    ELSE Append(map, comment)

RECURSIVE DedupSetAll(_, _)
DedupSetAll(map, chunk) ==
    IF chunk = <<>> THEN map ELSE DedupSetAll(DedupSet(map, Head(chunk)), Tail(chunk))

\* [...].sort((a, b) => a.createdUtc - b.createdUtc): a stable sort
RECURSIVE InsertByCreated(_, _)
InsertByCreated(list, comment) ==
    IF list = <<>> THEN <<comment>>
    ELSE IF list[Len(list)].createdUtc <= comment.createdUtc THEN Append(list, comment)
    ELSE Append(InsertByCreated(SubSeq(list, 1, Len(list) - 1), comment),
                list[Len(list)])

RECURSIVE SortByCreated(_)
SortByCreated(list) ==
    IF list = <<>> THEN <<>>
    ELSE InsertByCreated(SortByCreated(SubSeq(list, 1, Len(list) - 1)), list[Len(list)])

NoPage == [kind |-> "none", requests |-> 0, sleeps |-> 0, writes |-> 0, stored |-> FALSE,
           range |-> 0, after |-> 0, count |-> 0, last |-> 0, error |-> ""]

\* what the loop is told about a page: where it was asked for and what it held
PageRecord(counts, payload) ==
    [kind |-> counts.kind, requests |-> counts.requests, sleeps |-> counts.sleeps,
     writes |-> counts.writes, stored |-> counts.stored,
     range |-> rangeIdx, after |-> cursor, count |-> Len(payload.data),
     last |-> IF payload.data = <<>> THEN 0
              ELSE payload.data[Len(payload.data)].createdUtc,
     error |-> payload.error]

FetchIdle ==
    /\ client = <<>> /\ service = "" /\ pageCache = <<>> /\ fetchPc = "unused" /\ runs = 0 /\ clock = 0
    /\ rangeIdx = 0 /\ cursor = 0 /\ lastRequestTime = 0 /\ attempt = 0 /\ waitMs = 0
    /\ httpResponse = NoResponse /\ requestStart = -1 /\ requestGap = -1
    /\ responseText = <<>> /\ results = <<>> /\ dedup = <<>> /\ fetched = <<>>
    /\ fetchError = "" /\ liveRequests = 0 /\ cacheHits = 0 /\ curFound = FALSE /\ curRequests = 0
    /\ curLimited = 0
    /\ curSleeps = 0 /\ curWrites = 0 /\ lastPage = NoPage /\ seenIds = {}
    /\ rangePages = 0 /\ prevOk = FALSE /\ prevFetched = <<>>

\* a client over an empty cache; the clock reads far more than any spacing.
\* The page size is varied against the services that honour it.
InitFetch ==
    /\ client \in ClientOptions
    /\ service \in ServiceModes
    /\ service = "any" => client.pageSize = 2
    /\ pageCache = [c \in PageChecksums |-> Absent]
    /\ fetchPc = "idle" /\ runs = 0 /\ clock = 100000
    /\ rangeIdx = 0 /\ cursor = 0 /\ lastRequestTime = 0 /\ attempt = 0 /\ waitMs = 0
    /\ httpResponse = NoResponse /\ requestStart = -1 /\ requestGap = -1
    /\ responseText = <<>> /\ results = <<>> /\ dedup = <<>> /\ fetched = <<>>
    /\ fetchError = "" /\ liveRequests = 0 /\ cacheHits = 0 /\ curFound = FALSE /\ curRequests = 0
    /\ curLimited = 0
    /\ curSleeps = 0 /\ curWrites = 0 /\ lastPage = NoPage /\ seenIds = {}
    /\ rangePages = 0 /\ prevOk = FALSE /\ prevFetched = <<>>

\* (mutant) the cursor is the last timestamp, whatever it is
NextCursorUnfloored(after, lastTimestamp) == lastTimestamp

\* the cursor after a page that was not empty
NextCursor(after, lastTimestamp) ==
    IF lastTimestamp <= after THEN after + MIN_CURSOR_INCREMENT ELSE lastTimestamp

\* (mutant) no payload is taken to carry an error
PayloadErrorIgnored(payload) == FALSE

\* if (payload.error)
PayloadError(payload) == payload.error # ""

\* the checksum of the page the loop is at
CurrentChecksum == PageChecksum(cursor, client.ranges[rangeIdx].end)

\* fetchRange from the payload of a page to its next await, and fetchAll around it:
\* the error check, the mapping, the cursor, the end of the range, the next range
\* with its own cursor and lastRequestTime, and the sorted list at the end
Advance(payload, requestTime) ==
    LET range == client.ranges[rangeIdx]
        mapped == payload.data
        lastTimestamp == mapped[Len(mapped)].createdUtc
        nextCursor == NextCursor(cursor, lastTimestamp)
        chunk == results \o mapped
        merged == DedupSetAll(dedup, chunk)
        same == [pc |-> "failed", rangeIdx |-> rangeIdx, cursor |-> cursor,
                 lastRequestTime |-> requestTime, results |-> results, dedup |-> dedup,
                 fetched |-> <<>>, error |-> ""]
    IN  IF PayloadError(payload)
        THEN [same EXCEPT !.error = "Pullpush API returned error: " \o payload.error]
        ELSE IF mapped # <<>> /\ nextCursor < range.end
        THEN [same EXCEPT !.pc = "cacheRead", !.cursor = nextCursor, !.results = chunk]
        ELSE IF rangeIdx < Len(client.ranges)
        THEN [same EXCEPT !.pc = "cacheRead", !.rangeIdx = rangeIdx + 1,
                          !.cursor = client.ranges[rangeIdx + 1].start,
                          !.lastRequestTime = 0, !.results = <<>>, !.dedup = merged]
        ELSE [same EXCEPT !.pc = "done", !.results = chunk, !.dedup = merged,
                          !.fetched = SortByCreated(merged)]

\* the page is handed to the loop, which runs to its next await
HandPage(payload, requestTime, page) ==
    LET next == Advance(payload, requestTime)
    IN  /\ fetchPc' = next.pc
        /\ rangeIdx' = next.rangeIdx
        /\ cursor' = next.cursor
        /\ lastRequestTime' = next.lastRequestTime
        /\ results' = next.results
        /\ dedup' = next.dedup
        /\ fetched' = next.fetched
        /\ fetchError' = next.error
        /\ lastPage' = PageRecord(page, payload)
        /\ rangePages' = IF next.pc # "cacheRead" THEN rangePages
                          ELSE IF next.rangeIdx = rangeIdx THEN rangePages + 1 ELSE 1
        /\ seenIds' = seenIds \cup {payload.data[k].id : k \in 1 .. Len(payload.data)}
        /\ curFound' = FALSE /\ curRequests' = 0 /\ curSleeps' = 0 /\ curWrites' = 0
        /\ curLimited' = 0

\* fetch(url) is called at time now
IssueRequest(now) ==
    /\ requestStart' = now
    /\ requestGap' = IF requestStart = -1 THEN -1 ELSE now - requestStart

\* fetchAll(): with no range it returns []; otherwise fetchRange of the first
\* range awaits the cache for its first page. No time read by an earlier
\* fetchAll is kept (fetchRange resets lastRequestTime), so the clock is
\* measured from the start of the call, where it reads what it read in Init.
FetchAllStart ==
    /\ fetchPc \in {"idle", "done", "failed"}
    /\ runs < MaxRuns
    /\ runs' = runs + 1
    /\ fetchPc' = IF client.ranges = <<>> THEN "done" ELSE "cacheRead"
    /\ rangeIdx' = IF client.ranges = <<>> THEN 0 ELSE 1
    /\ cursor' = IF client.ranges = <<>> THEN 0 ELSE client.ranges[1].start
    /\ lastRequestTime' = 0
    /\ attempt' = 0 /\ waitMs' = 0 /\ responseText' = <<>>
    /\ httpResponse' = NoResponse /\ requestStart' = -1 /\ requestGap' = -1
    /\ results' = <<>> /\ dedup' = <<>> /\ fetched' = <<>> /\ fetchError' = ""
    /\ liveRequests' = 0 /\ cacheHits' = 0
    /\ curFound' = FALSE /\ curRequests' = 0 /\ curSleeps' = 0 /\ curWrites' = 0
        /\ curLimited' = 0
    /\ lastPage' = NoPage /\ seenIds' = {}
    /\ rangePages' = IF client.ranges = <<>> THEN 0 ELSE 1
    /\ prevOk' = (fetchPc = "done") /\ prevFetched' = fetched
    /\ clock' = 100000
    /\ UNCHANGED <<client, pageCache, service, outsideFetch>>

\* await this.cache.read(namespace, checksum) resolves: a cached page goes to the
\* loop; without one the spacing is slept, or the request issued at once
CacheReadPage ==
    /\ fetchPc = "cacheRead"
    /\ LET cached == pageCache[CurrentChecksum]
           elapsed == clock - lastRequestTime
       IN  IF PageHit(cached)
           THEN /\ HandPage(PageParse(cached), lastRequestTime,
                            [kind |-> "hit", requests |-> curRequests,
                             sleeps |-> curSleeps, writes |-> curWrites,
                             stored |-> TRUE])
                /\ cacheHits' = cacheHits + 1
                /\ UNCHANGED <<attempt, waitMs, requestStart, requestGap>>
           ELSE /\ curFound' = (cached # Absent)
                /\ IF client.requestSpacingMs > 0 /\ elapsed < client.requestSpacingMs
                   THEN /\ fetchPc' = "spacing"
                        /\ waitMs' = client.requestSpacingMs - elapsed
                        /\ UNCHANGED <<attempt, requestStart, requestGap>>
                   ELSE /\ fetchPc' = "fetch"
                        /\ attempt' = 0
                        /\ IssueRequest(clock)
                        /\ UNCHANGED waitMs
                /\ UNCHANGED <<rangeIdx, cursor, lastRequestTime, results, dedup, fetched,
                               fetchError, cacheHits, curRequests, curLimited, curSleeps,
                               curWrites,
                               lastPage, seenIds, rangePages>>
    /\ UNCHANGED <<client, pageCache, runs, clock, responseText, liveRequests,
                   service, httpResponse, prevOk, prevFetched, outsideFetch>>

\* await sleep(requestSpacingMs - elapsed) resolves; fetchLive issues its first request
SpacingDone ==
    /\ fetchPc = "spacing"
    /\ clock' = clock + waitMs
    /\ curSleeps' = curSleeps + 1
    /\ fetchPc' = "fetch"
    /\ attempt' = 0
    /\ IssueRequest(clock + waitMs)
    /\ UNCHANGED <<client, pageCache, runs, rangeIdx, cursor, lastRequestTime, waitMs,
                   responseText, results, dedup, fetched, fetchError, liveRequests,
                   cacheHits, curFound, curRequests, curWrites, lastPage, seenIds, service, rangePages, httpResponse, prevOk, prevFetched, curLimited, outsideFetch>>

\* (mutant) every retry waits the same time
BackoffFlat(retryBackoffMs, tries) == retryBackoffMs

\* this.retryBackoffMs * (attempt + 1)
Backoff(retryBackoffMs, tries) == retryBackoffMs * (tries + 1)

\* (mutant) the loop never gives up
AttemptsUnbounded(tries, maxRetries) == TRUE

\* the loop condition of fetchLive: another attempt is made while attempt < maxRetries
WithinBudget(tries, maxRetries) == tries < maxRetries

\* (mutant) every response that is not a 429 counts as a success
ResponseOkAlways(status) == TRUE

\* response.ok: the status is in the range 200-299
ResponseOk(status) == status >= 200 /\ status <= 299

\* await fetch(url) resolves: 429 sleeps, another failure sleeps or throws,
\* a success has its text written to the cache
FetchResponse(response) ==
    /\ fetchPc = "fetch"
    /\ response.status = 200 =>
        response.payload \in ServicePayloads(service, cursor, client.ranges[rangeIdx].end,
                                             client.pageSize)
    /\ liveRequests' = liveRequests + 1
    /\ httpResponse' = [status |-> response.status, retryAfter |-> response.retryAfter]
    /\ curRequests' = curRequests + 1
    /\ curLimited' = IF response.status = 429 THEN curLimited + 1 ELSE curLimited
    /\ IF response.status = 429
       THEN LET fromHeader == HeaderNumber(response.retryAfter)
            IN  /\ waitMs' = IF fromHeader.finite THEN fromHeader.value * 1000
                             ELSE Backoff(client.retryBackoffMs, attempt)
                /\ fetchPc' = "retryWait"
                /\ UNCHANGED <<responseText, fetchError>>
       ELSE IF ~ResponseOk(response.status)
       THEN IF attempt < client.maxRetries - 1
            THEN /\ waitMs' = Backoff(client.retryBackoffMs, attempt)
                 /\ fetchPc' = "retryWait"
                 /\ UNCHANGED <<responseText, fetchError>>
            ELSE /\ fetchPc' = "failed"
                 /\ fetchError' = "Pullpush API request failed with status "
                                    \o ToString(response.status)
                 /\ UNCHANGED <<responseText, waitMs>>
       ELSE /\ responseText' = PageText(response.payload)
            /\ fetchPc' = "cacheWrite"
            /\ UNCHANGED <<waitMs, fetchError>>
    /\ UNCHANGED <<client, pageCache, runs, clock, rangeIdx, cursor, lastRequestTime,
                   attempt, results, dedup, fetched, cacheHits, curFound, curSleeps,
                   curWrites, lastPage, seenIds, service, rangePages, requestStart, requestGap, prevOk, prevFetched, outsideFetch>>

\* await sleep(waitMs) resolves; continue: the next attempt, or the budget is spent
RetryWaitDone ==
    /\ fetchPc = "retryWait"
    /\ clock' = clock + waitMs
    /\ attempt' = attempt + 1
    /\ httpResponse' = NoResponse
    /\ IF WithinBudget(attempt + 1, client.maxRetries)
       THEN /\ fetchPc' = "fetch"
            /\ IssueRequest(clock + waitMs)
            /\ UNCHANGED fetchError
       ELSE /\ fetchPc' = "failed"
            /\ fetchError' = "Exceeded retry budget for pullpush API request."
            /\ UNCHANGED <<requestStart, requestGap>>
    /\ UNCHANGED <<client, pageCache, runs, rangeIdx, cursor, lastRequestTime, waitMs,
                   responseText, results, dedup, fetched, liveRequests, cacheHits,
                   curFound, curRequests, curSleeps, curWrites, lastPage, seenIds, service, rangePages, prevOk, prevFetched, curLimited, outsideFetch>>

\* await this.cache.write(...) resolves; fetchLive returns JSON.parse(text) and
\* fetchRange takes the time of the request
CacheWritePage ==
    /\ fetchPc = "cacheWrite"
    /\ pageCache' = CacheWrite(pageCache, CurrentChecksum, responseText)
    /\ HandPage(PageParse(responseText), clock,
                [kind |-> IF curFound THEN "hit" ELSE "miss",
                 requests |-> curRequests, sleeps |-> curSleeps,
                 writes |-> curWrites + 1,
                 stored |-> pageCache'[CurrentChecksum] = responseText])
    /\ responseText' = <<>>
    /\ httpResponse' = NoResponse
    /\ UNCHANGED <<client, runs, clock, attempt, waitMs, liveRequests, cacheHits,
                   service, requestStart, requestGap, prevOk, prevFetched, outsideFetch>>

\* await this.cache.read(...) rejects in fetchRange: fetchAll rejects with it
PageReadThrows ==
    /\ fetchPc = "cacheRead"
    /\ fetchPc' = "failed"
    /\ fetchError' = "cache read failed"
    /\ UNCHANGED <<client, service, pageCache, runs, clock, rangeIdx, cursor,
                   lastRequestTime, attempt, waitMs, httpResponse, requestStart,
                   requestGap, responseText, results, dedup, fetched, liveRequests,
                   cacheHits, curFound, curRequests, curLimited, curSleeps, curWrites,
                   lastPage, seenIds, rangePages, prevOk, prevFetched, outsideFetch>>

\* await this.cache.write(...) rejects in fetchLive: fetchAll rejects with it,
\* the response in hand is dropped
PageWriteThrows(stored) ==
    /\ fetchPc = "cacheWrite"
    /\ fetchPc' = "failed"
    /\ fetchError' = "cache write failed"
    /\ pageCache' = IF stored THEN CacheWrite(pageCache, CurrentChecksum, responseText)
                    ELSE pageCache
    /\ curWrites' = curWrites + 1
    /\ UNCHANGED <<client, service, runs, clock, rangeIdx, cursor,
                   lastRequestTime, attempt, waitMs, httpResponse, requestStart,
                   requestGap, responseText, results, dedup, fetched, liveRequests,
                   cacheHits, curFound, curRequests, curLimited, curSleeps,
                   lastPage, seenIds, rangePages, prevOk, prevFetched, outsideFetch>>

\* ------------------------------------- CommentAnalyzer.discoverCategories
\* Categories are modelled by their slugs, comments by their numbers 1 .. count;
\* the comments of a discovery differ in their formatted samples.

\* formatSample(comment)
FormatSample(id) == "#sub | sample of comment " \o ToString(id)

\* shuffle(list): some permutation of the list
Shuffle(count) ==
    {p \in [1 .. count -> 1 .. count] : \A i, j \in 1 .. count : p[i] = p[j] => i = j}

\* sampleComments(comments, size), given what shuffle returned
SampleComments(shuffled, size) ==
    SubSeq(shuffled, 1, IF size < Len(shuffled) THEN size ELSE Len(shuffled))

\* the key of cachePayload for an iteration: what varies between two calls of
\* one analyzer are iteration, totalComments and sampleHash = checksumFrom(samples)
IterationKey(iteration, totalComments, samples) ==
    <<"category-iteration", iteration, totalComments,
      ChecksumFrom(Arr([k \in 1 .. Len(samples) |-> Leaf("str", samples[k])]))>>

\* candidateList: the candidates' lines joined by '\n'
RECURSIVE CandidateList(_)
CandidateList(slugs) ==
    IF slugs = <<>> THEN ""
    ELSE IF Len(slugs) = 1 THEN "- " \o slugs[1]
    ELSE "- " \o slugs[1] \o "\n" \o CandidateList(Tail(slugs))

\* the key of cachePayload for the consolidation: candidateHash = checksumFrom(candidateList)
ConsolidationKey(totalComments, candidates) ==
    <<"category-consolidation", 0, totalComments,
      ChecksumFrom(Leaf("str", CandidateList(candidates)))>>

\* dedupCategories(categories): one category per slug, at the place of the first
RECURSIVE DedupCategories(_)
DedupCategories(slugs) ==
    IF slugs = <<>> THEN <<>>
    ELSE LET front == DedupCategories(SubSeq(slugs, 1, Len(slugs) - 1))
             last == slugs[Len(slugs)]
         IN  IF \E k \in 1 .. Len(front) : front[k] = last THEN front
             ELSE Append(front, last)

\* what the inference service may answer a category prompt with
CategoryAnswers == {<<"bug">>, <<"praise", "bug">>}

NoEntry == <<"none">>
\* this.llmCache.getOrCompute(cachePayload, compute), where compute resolves
\* with `answer` when it is invoked
DiscoverGetOrCompute(cache, key, answer) ==
    LET found == {e \in cache : e.key = key}
    IN  IF found # {}
        THEN [value |-> (CHOOSE e \in found : TRUE).value, cache |-> cache, calls |-> 0]
        ELSE [value |-> answer, cache |-> cache \cup {[key |-> key, value |-> answer]},
              calls |-> 1]

DiscoverIdle ==
    /\ discPc = "unused" /\ discOptions = <<>> /\ discComments = 0 /\ discIteration = 0
    /\ discCandidates = <<>> /\ discCache = {} /\ discCalls = 0 /\ discRuns = 0
    /\ discResult = <<>> /\ discPrev = <<>>

\* an analyzer over an empty cache
InitDiscover ==
    /\ discPc = "idle"
    /\ discOptions \in [categoryIterations : {1, 2}, categorySampleSize : {1, 2}]
    /\ discComments \in 0 .. MaxItems
    /\ discIteration = 0 /\ discCandidates = <<>> /\ discCache = {} /\ discCalls = 0
    /\ discRuns = 0 /\ discResult = <<>> /\ discPrev = <<>>

\* generateCategories(comments): discoverCategories up to its loop
GenerateCategories ==
    /\ discPc \in {"idle", "done"}
    /\ discRuns < MaxRuns
    /\ discRuns' = discRuns + 1
    /\ discPc' = "iterating"
    /\ discIteration' = 0 /\ discCandidates' = <<>> /\ discCalls' = 0
    /\ discPrev' = discResult
    /\ UNCHANGED <<discOptions, discComments, discCache, discResult, outsideDiscover>>

\* one turn of the loop of discoverCategories: the sample, its cache payload,
\* getOrCompute and the push of the categories; an empty sample ends the loop
DiscoverIteration(shuffled, answer) ==
    /\ discPc = "iterating"
    /\ LET sampleComments == SampleComments(shuffled, discOptions.categorySampleSize)
           samples == [k \in 1 .. Len(sampleComments) |-> FormatSample(sampleComments[k])]
           got == DiscoverGetOrCompute(discCache,
                                       IterationKey(discIteration, discComments, samples),
                                       answer)
       IN  IF sampleComments = <<>>
           THEN /\ discPc' = "consolidating"
                /\ UNCHANGED <<discIteration, discCandidates, discCache, discCalls>>
           ELSE /\ discCache' = got.cache
                /\ discCalls' = discCalls + got.calls
                /\ discCandidates' = discCandidates \o got.value
                /\ discIteration' = discIteration + 1
                /\ discPc' = IF discIteration + 1 < discOptions.categoryIterations
                             THEN "iterating" ELSE "consolidating"
    /\ UNCHANGED <<discOptions, discComments, discRuns, discResult, discPrev,
                   outsideDiscover>>

\* consolidateCategories(iterationResults, comments.length) and the return
ConsolidateStep(answer) ==
    /\ discPc = "consolidating"
    /\ LET uniqueCandidates == DedupCategories(discCandidates)
           got == DiscoverGetOrCompute(discCache,
                                       ConsolidationKey(discComments, uniqueCandidates),
                                       answer)
       IN  IF uniqueCandidates = <<>>
           THEN /\ discResult' = EnsureMandatoryCategories(<<>>)
                /\ UNCHANGED <<discCache, discCalls>>
           ELSE /\ discResult' = ConsolidateCategories(got.value)
                /\ discCache' = got.cache
                /\ discCalls' = discCalls + got.calls
    /\ discPc' = "done"
    /\ UNCHANGED <<discOptions, discComments, discIteration, discCandidates, discRuns,
                   discPrev, outsideDiscover>>

\* ------------------------------------------------------- utils/time.ts
\* Dates are kept in whole seconds: new Date(epoch * 1000) of an integer epoch
\* (toUnixSeconds floors) holds no fraction of a second, and
\* Math.floor(date.getTime() / 1000) gives the seconds back.

\* the day number (days since 1970-01-01) of a UTC date, month 0 .. 11;
\* the day of the month may exceed the month's length (MakeDay)
DaysFromCivil(year, month, day) ==
    LET y == IF month <= 1 THEN year - 1 ELSE year
        era == y \div 400
        yoe == y - era * 400
        mp == IF month >= 2 THEN month - 2 ELSE month + 10
        doy == (153 * mp + 2) \div 5 + day - 1
        doe == yoe * 365 + yoe \div 4 - yoe \div 100 + doy
    IN  era * 146097 + doe - 719468

\* getUTCFullYear, getUTCMonth (0 .. 11) and getUTCDate of a day number
CivilFromDays(days) ==
    LET z == days + 719468
        era == z \div 146097
        doe == z - era * 146097
        yoe == (doe - doe \div 1460 + doe \div 36524 - doe \div 146096) \div 365
        doy == doe - (365 * yoe + yoe \div 4 - yoe \div 100)
        mp == (5 * doy + 2) \div 153
        month == IF mp < 10 THEN mp + 2 ELSE mp - 10
    IN  [year |-> yoe + era * 400 + (IF month <= 1 THEN 1 ELSE 0),
         month |-> month,
         day |-> doy - (153 * mp + 2) \div 5 + 1]

\* addMonths(date, months): setUTCMonth(getUTCMonth() + months) keeps the day of
\* the month and the time of day; a month past December carries into the year
\* and a day past the end of the month carries into the next month
AddMonths(date, months) ==
    LET civil == CivilFromDays(date \div 86400)
        targetMonth == civil.month + months
    IN  DaysFromCivil(civil.year + targetMonth \div 12, targetMonth % 12, 1) * 86400
            + (civil.day - 1) * 86400 + (date % 86400)

\* (mutant) a chunk always ends a whole batch after its start
UnboundedEnd(chunkEndDate, endDate) == chunkEndDate

\* boundedEnd
BoundedEnd(chunkEndDate, endDate) ==
    IF chunkEndDate > endDate THEN endDate ELSE chunkEndDate

\* the while loop of splitIntoMonthlyRanges, from one value of its cursor
RECURSIVE SplitLoop(_, _, _, _)
SplitLoop(from, endDate, monthsPerBatch, ranges) ==
    IF ~(from < endDate) THEN ranges
    ELSE LET chunkStart == from
             chunkEndDate == AddMonths(from, monthsPerBatch)
             boundedEnd == BoundedEnd(chunkEndDate, endDate)
             chunkEnd == boundedEnd
         IN  IF chunkEnd <= chunkStart THEN ranges
             ELSE SplitLoop(boundedEnd, endDate, monthsPerBatch,
                            Append(ranges, EpochRange(chunkStart, chunkEnd)))

\* splitIntoMonthlyRanges(startEpoch, endEpoch, monthsPerBatch)
SplitIntoMonthlyRanges(startEpoch, endEpoch, monthsPerBatch) ==
    IF monthsPerBatch <= 0 THEN [threw |-> TRUE, ranges |-> <<>>]
    ELSE IF endEpoch <= startEpoch THEN [threw |-> FALSE, ranges |-> <<>>]
    ELSE LET ranges == SplitLoop(startEpoch, endEpoch, monthsPerBatch, <<>>)
             previousEnd == IF ranges = <<>> THEN startEpoch ELSE ranges[Len(ranges)].end
         IN  [threw |-> FALSE,
              ranges |-> IF (ranges = <<>> \/ ranges[Len(ranges)].end < endEpoch)
                            /\ endEpoch > previousEnd
                         THEN Append(ranges, EpochRange(previousEnd, endEpoch))
                         ELSE ranges]

\* the epochs the function is called with: 2023-12-31, 2024-01-01, 2024-01-31,
\* 2024-01-31T23:59:59, 2024-02-29, 2024-04-01, 2024-12-31 and 2025-03-01 (UTC)
SplitEpochs ==
    {1703980800, 1704067200, 1706659200, 1706745599, 1709164800, 1711929600,
     1735603200, 1740787200}

\* monthsPerBatch comes from parsePositiveInteger
SplitBatches == {1, 2, 12}

SplitIdle ==
    /\ splitPc = "unused" /\ splitStart = 0 /\ splitEnd = 0 /\ splitMonths = 0
    /\ splitRanges = <<>>

InitSplit ==
    /\ splitPc = "called"
    /\ splitStart \in SplitEpochs /\ splitEnd \in SplitEpochs
    /\ splitMonths \in SplitBatches
    /\ splitRanges = <<>>

\* the call returns its ranges or throws
SplitReturn ==
    /\ splitPc = "called"
    /\ LET result == SplitIntoMonthlyRanges(splitStart, splitEnd, splitMonths)
       IN  /\ splitPc' = IF result.threw THEN "threw" ELSE "returned"
           /\ splitRanges' = result.ranges
    /\ UNCHANGED <<splitStart, splitEnd, splitMonths, outsideSplit>>

\* ================================================================ claims
\* ---- analyze, analyzeTarget (specification Spec)

InFlight == {i \in Indices : taskPc[i] = "classifying"}
Running == {i \in Indices : taskPc[i] \in {"classifying", "inCallback", "finishing", "failing"}}

\* C1: when analyze returns successfully (every classifyComment call succeeded, in
\* whatever order they completed, under any concurrency limit), the indices passed to
\* onClassification are exactly 0, 1, ..., n-1 in that order, and with collection
\* enabled the returned classifications list is that same sequence.
C1_OrderedEmission ==
    analyzePc = "resolved" =>
        /\ hasCallback => callbackSeq = UpTo(n)
        /\ shouldCollect => returned = UpTo(n)
        /\ ~shouldCollect => returned = <<>>

\* C1 witness: three comments completing in the order 2, 0, 1 are emitted and
\* returned as 0, 1, 2.
C1_Witness ==
    /\ analyzePc = "resolved"
    /\ n = 3
    /\ completionOrder = <<2, 0, 1>>
    /\ hasCallback /\ callbackSeq = <<0, 1, 2>>
    /\ shouldCollect /\ returned = <<0, 1, 2>>

\* C2: in every reachable state, failing runs included, the indices passed to
\* onClassification are 0..m-1 in order, each once, and so are the collected ones.
C2_PrefixInvariant ==
    /\ callbackSeq = UpTo(Len(callbackSeq))
    /\ collected = UpTo(Len(collected))
    /\ Len(callbackSeq) <= n /\ Len(collected) <= n
    /\ hasCallback /\ shouldCollect => collected = callbackSeq

\* C2 witness: a run with a failed classifyComment call and a failed callback,
\* after two emissions, with a completed result still held back.
C2_Witness ==
    /\ \E i \in Indices : taskPc[i] = "rejected" /\ taskError[i].kind = "classify"
    /\ \E j \in Indices : taskError[j].kind = "callback"
    /\ Len(callbackSeq) >= 2
    /\ pending # {}

\* C3: the classifyComment calls started and not yet settled never exceed the
\* concurrency limit; the limiter's running count is the number of started,
\* unsettled tasks and never exceeds the limit either.
C3_ConcurrencyCap ==
    /\ Cardinality(InFlight) <= concurrency
    /\ activeCount = Cardinality(Running)
    /\ activeCount <= concurrency

\* C3 witness: the limit is reached while a further call waits in the queue.
C3_Witness ==
    /\ concurrency >= 2
    /\ Cardinality(InFlight) = concurrency
    /\ \E i \in Indices : taskPc[i] = "queued"

\* C4: once the classifyComment call of an index has failed, analyze never returns a
\* classifications list; when that task has settled analyze has rejected, with the
\* error of a rejected task, which is that index's error when it is the only one.
C4_FailureAborts ==
    \A i \in Indices :
        taskError[i].kind = "classify" =>
            /\ analyzePc \notin {"resolved", "finalDrain"}
            /\ returned = NoResult
            /\ taskPc[i] = "rejected" =>
                  /\ analyzePc = "rejected"
                  /\ \E j \in Indices : taskPc[j] = "rejected" /\ analyzeError = taskError[j]
                  /\ (\A j \in Indices \ {i} : taskPc[j] # "rejected")
                        => analyzeError = ClassifyError(i)

\* C4 witness: index 2 failed after indices 0 and 1 completed and were emitted.
C4_Witness ==
    /\ n >= 3
    /\ analyzePc = "rejected"
    /\ analyzeError = ClassifyError(2)
    /\ taskPc[0] = "resolved" /\ taskPc[1] = "resolved"
    /\ callbackSeq = <<0, 1>>

\* C5 (as claimed): once the CSV writer exists, every way analyzeTarget ends,
\* the rejection of analyze included, has closed it.
C5_SinkClosedOnEveryPath ==
    (writer # "none" /\ targetPc \in {"done", "failed"}) => writer = "closed"

\* ---- emitIfReady: progress (specification SpecLive)

Completed(i) == \E k \in 1 .. Len(completionOrder) : completionOrder[k] = i
CallbackFailed ==
    \/ \E j \in Indices : taskError[j].kind = "callback"
    \/ analyzeError.kind = "callback"

\* C21: when the classifications of the indices 0..i have all completed, index i
\* is eventually passed to onClassification, provided the callbacks return; no
\* classification of a greater index has to complete for that.  (The callbacks
\* are the only steps assumed to happen.)
C21_StreamingProgress ==
    \A i \in 0 .. (MaxComments - 1) :
        (i < n /\ hasCallback /\ \A j \in 0 .. i : Completed(j))
            ~> (Len(callbackSeq) > i \/ CallbackFailed)

\* C21 witness: indices 0 and 1 have been emitted while the classification of
\* index 2 has not completed and analyze still waits for its tasks.
C21_Witness ==
    /\ n >= 3 /\ hasCallback
    /\ callbackSeq = <<0, 1>> /\ nextEmitIndex = 2
    /\ taskPc[2] \in {"queued", "classifying"}
    /\ analyzePc = "awaitAll"

\* ---- analyzeTarget: rows (specification Spec)

CallbacksInProgress == {d \in Drainers : InCallback(d)}

\* C23: under analyzeTarget the rows written are the emissions, in their order;
\* a row is begun only when the one before has finished (the callback that
\* writes it has returned), and when analyzeTarget has closed the writer the n
\* rows 0..n-1 have been written and no writeRow is in progress.
C23_OneRowPerEmission ==
    caller = "target" =>
        /\ rows = callbackSeq
        /\ Cardinality(CallbacksInProgress) <= 1
        /\ ~CallbackFailed =>
              Len(rows) = nextEmitIndex + Cardinality(CallbacksInProgress)
        /\ writer = "closed" =>
              /\ targetPc = "done"
              /\ rows = UpTo(n)
              /\ CallbacksInProgress = {}

\* C23 witness: three comments classified in the order 2, 1, 0 were written as
\* rows 0, 1, 2 before the writer was closed.
C23_Witness ==
    /\ caller = "target" /\ targetPc = "done" /\ writer = "closed"
    /\ n = 3 /\ completionOrder = <<2, 1, 0>>
    /\ rows = <<0, 1, 2>>

\* ---- analyze: completion (specification Spec)

\* C26: when Promise.all has fulfilled, every task has settled, the pending map
\* is empty and nextEmitIndex = n, so the emitIfReady that follows emits nothing
\* (analyze is never suspended in a callback of its own); the same holds when
\* analyze has returned.
C26_CompletionCondition ==
    /\ analyzePc # "finalDrain"
    /\ (analyzePc = "resolved"
          \/ (analyzePc = "awaitAll" /\ \A i \in Indices : taskPc[i] = "resolved")) =>
          /\ \A i \in Indices : taskPc[i] = "resolved"
          /\ pending = {}
          /\ nextEmitIndex = n
          /\ hasCallback => Len(callbackSeq) = n
          /\ shouldCollect => Len(collected) = n

\* C26 witness: analyze returned after a run in which the results of indices 1
\* and 2 were held back until index 0 completed and were emitted by its drain.
C26_Witness ==
    /\ analyzePc = "resolved" /\ n = 3 /\ hasCallback
    /\ completionOrder = <<1, 2, 0>>
    /\ pending = {} /\ nextEmitIndex = 3

\* C27: at most one onClassification invocation is in progress at any time.
\* While a drain is suspended in the callback (for index nextEmitIndex), every
\* task whose classification has completed for a greater index has emitted
\* nothing: its result is held in the pending map, it was not passed to the
\* callback or collected, and the task itself is not in a callback but settling
\* or settled.
C27_SingleActiveDrain ==
    /\ Cardinality(CallbacksInProgress) <= 1
    /\ CallbacksInProgress # {} =>
          /\ callbackSeq # <<>> /\ callbackSeq[Len(callbackSeq)] = nextEmitIndex
          /\ \A i \in Indices :
                (Completed(i) /\ i > nextEmitIndex) =>
                    /\ i \in pending
                    /\ taskPc[i] \in {"finishing", "resolved"}
                    /\ \A k \in 1 .. Len(callbackSeq) : callbackSeq[k] # i
                    /\ \A k \in 1 .. Len(collected) : collected[k] # i

\* C27 witness: the drain of task 0 is suspended in the callback for index 0
\* while task 1 has completed and settled, its result still in the pending map.
C27_Witness ==
    /\ n >= 2 /\ hasCallback
    /\ taskPc[0] = "inCallback" /\ nextEmitIndex = 0 /\ callbackSeq = <<0>>
    /\ taskPc[1] = "resolved" /\ 1 \in pending
    /\ completionOrder = <<0, 1>>

\* a classifyComment call has failed
ClassifyFailed == \E f \in Indices : taskError[f].kind = "classify"

\* C28: once a classifyComment call has failed and analyze has rejected, no
\* queued task is started (no further classifyComment call) and nothing more is
\* passed to onClassification.
C28_PromptStop ==
    [][(ClassifyFailed /\ analyzePc = "rejected") =>
          /\ \A i \in Indices : taskPc[i] = "queued" => taskPc'[i] = "queued"
          /\ callbackSeq' = callbackSeq]_vars

\* C29: when the classifyComment call of index f has failed, no index i >= f has
\* been passed to onClassification or added to the collected list, and none is
\* afterwards: nextEmitIndex stays at or below f, whatever completes later.
C29_NoEmissionPastFailure ==
    \A f \in Indices :
        taskError[f].kind = "classify" =>
            /\ \A k \in 1 .. Len(callbackSeq) : callbackSeq[k] < f
            /\ \A k \in 1 .. Len(collected) : collected[k] < f
            /\ nextEmitIndex <= f
            /\ f \notin pending

\* C29 witness: the call of index 1 failed; index 0 was emitted, and the results
\* of indices 2 and 3, completed after the failure (the tasks ran one at a time),
\* stay in the pending map after every task has settled.
C29_Witness ==
    /\ n = 4 /\ concurrency = 1 /\ taskError[1].kind = "classify"
    /\ completionOrder = <<0, 2, 3>>
    /\ nextEmitIndex = 1 /\ pending = {2, 3}
    /\ \A i \in Indices : taskPc[i] \in {"resolved", "rejected"}
    /\ analyzePc = "rejected"

\* C30: the pending map never holds more results (completed, not yet emitted)
\* than the concurrency limit.
C30_BoundedReorderBuffer == Cardinality(pending) <= concurrency

\* ---- fetchLive: what is cached (specification SpecFetch)

\* C32: the cache changes only when fetchLive writes the text of a success
\* response under the checksum of the page asked for; a step taken on a 429 or
\* another non-success response, a retry wait, and the step in which fetchLive
\* gives up leave the cache as it was.
C32_OnlySuccessCached ==
    [][/\ pageCache' # pageCache =>
             /\ fetchPc = "cacheWrite" /\ httpResponse.status = 200
             /\ pageCache' = [pageCache EXCEPT ![CurrentChecksum] = responseText]
       /\ (fetchPc \in {"fetch", "retryWait"} /\ fetchPc' \in {"retryWait", "failed"}) =>
             pageCache' = pageCache]_vars

\* C32 witness: fetchAll failed after three failure responses for its first
\* page, one of them a 429, and the cache holds no entry.
C32_Witness ==
    /\ fetchPc = "failed" /\ curRequests = 3 /\ curLimited = 1
    /\ fetchError = "Pullpush API request failed with status 500"
    /\ runs = 1 /\ cacheHits = 0
    /\ \A c \in PageChecksums : pageCache[c] = Absent

\* C33: when fetchAll has failed on an error payload that came in a live
\* response, the cache holds no entry for that page.
C33_NoPoisonedEntry ==
    (fetchPc = "failed" /\ lastPage.error # "" /\ lastPage.kind = "miss") =>
        pageCache[PageChecksum(lastPage.after, client.ranges[lastPage.range].end)] = Absent

\* ---- classifyComment: the prompt (specification SpecClassify)

\* the prompt call c builds
PromptOf(c) == ClassifyPrompt(callComment[c], callPosition[c][1], callPosition[c][2])

\* C31: two classifyComment calls with the same cache payload build the same
\* prompt text.
C31_KeyCoversPrompt ==
    \A b, c \in CallIds :
        (callPc[b] # "idle" /\ callPc[c] # "idle" /\ callPayload[b] = callPayload[c]) =>
            PromptOf(b) = PromptOf(c)

\* ---- analyze: collection mode (specification Spec)

\* C38: results are collected when collectClassifications is true, or unset with
\* no callback given, and not otherwise.  Without collection nothing is ever
\* appended and the list returned is empty, although with a callback every item
\* was passed to it; with collection the list returned holds every item, and
\* with a callback as well each item appended is also passed to the callback.
C38_CollectionMode ==
    /\ \A callbackGiven \in BOOLEAN :
          /\ ShouldCollect("true", callbackGiven)
          /\ ~ShouldCollect("false", callbackGiven)
          /\ ShouldCollect("unset", callbackGiven) <=> ~callbackGiven
    /\ ~shouldCollect => collected = <<>>
    /\ ~hasCallback => callbackSeq = <<>>
    /\ (shouldCollect /\ hasCallback) => collected = callbackSeq
    /\ (analyzePc = "resolved" /\ ~shouldCollect) =>
          /\ returned = <<>>
          /\ hasCallback => callbackSeq = UpTo(n)
    /\ (analyzePc = "resolved" /\ shouldCollect) =>
          /\ returned = UpTo(n)
          /\ hasCallback => callbackSeq = returned

\* C38 witness: a direct call with a callback and no collection returned an empty
\* list after the three items were passed to the callback.
C38_Witness ==
    /\ analyzePc = "resolved" /\ caller = "direct" /\ n = 3
    /\ hasCallback /\ ~shouldCollect
    /\ returned = <<>> /\ collected = <<>> /\ callbackSeq = <<0, 1, 2>>

\* ---- checksumFrom (specification SpecHash)

\* C8 (as claimed): two JSON-like values get the same digest exactly when they are
\* structurally equal: the insertion order of object keys at any depth changes
\* nothing, and a different key, leaf or array order changes the digest.
C8_ChecksumCanonical ==
    hashPc = "both" =>
        (hashDigest1 = hashDigest2 <=> StructEq(hashValue1, hashValue2))

\* ---- getOrCompute (specification SpecMemo)

WritesOf(c) == {w \in memoWrites : w.call = c}
ComputedBy(p) == {c \in CallIds : callComputes[c] > 0 /\ StructEq(callPayload[c], p)}
FailedFor(p) == \E c \in CallIds : callPc[c] = "threw" /\ StructEq(callPayload[c], p)

\* C6: a call whose read found an entry never invokes compute, never writes, and
\* returns the parsed stored body; a call whose read found none has, when it
\* returns, invoked compute once and written one entry, the serialized result,
\* under the checksum of its payload, and returns that result.
C6_HitMiss ==
    \A c \in CallIds :
        /\ (callRead[c] # Unread /\ callRead[c] # Absent) =>
              /\ callComputes[c] = 0 /\ callWrites[c] = 0 /\ WritesOf(c) = {}
              /\ callPc[c] = "returned" /\ callValue[c] = JsonParse(callRead[c])
        /\ (callRead[c] = Absent /\ callPc[c] = "returned") =>
              /\ callComputes[c] = 1 /\ callWrites[c] = 1
              /\ WritesOf(c) = {[call |-> c, checksum |-> ChecksumFrom(callPayload[c]),
                                  body |-> JsonStringify(callValue[c])]}

\* C6 witness: one call returned after a miss and a later one after a hit
C6_Witness ==
    \E b, c \in CallIds :
        /\ callPc[b] = "returned" /\ callRead[b] = Absent
        /\ callPc[c] = "returned" /\ callRead[c] # Absent /\ callValue[c] = callValue[b]

WritesUnder(c) == {w \in memoWrites : w.checksum = ChecksumFrom(callPayload[c])}

\* C34: a getOrCompute call whose compute threw has failed: it invoked compute
\* once, wrote nothing and returned no value; what is written is always a value
\* compute resolved with.  As long as no call has written under that checksum
\* the cache holds nothing there, and every call whose read of that checksum has
\* returned found nothing and invoked compute again.
C34_FailedComputeNotCached ==
    /\ \A c \in CallIds :
          /\ callPc[c] = "writing" => callValue[c] \in MemoResults
          /\ callPc[c] = "threw" =>
                /\ callComputes[c] = 1 /\ callWrites[c] = 0 /\ WritesOf(c) = {}
                /\ callValue[c] = NoValue /\ callRead[c] = Absent
                /\ WritesUnder(c) = {} =>
                      /\ memoCache[ChecksumFrom(callPayload[c])] = Absent
                      /\ \A d \in CallIds :
                            (/\ ChecksumFrom(callPayload[d]) = ChecksumFrom(callPayload[c])
                             /\ callPc[d] \notin {"idle", "reading"}) =>
                                callRead[d] = Absent /\ callComputes[d] = 1
    /\ \A w \in memoWrites : \E r \in MemoResults : w.body = JsonStringify(r)

\* C34 witness: the compute of call 1 threw; call 2, made afterwards with the
\* same payload, found nothing in the cache, computed and wrote the entry.
C34_Witness ==
    /\ callPc[1] = "threw" /\ callPc[2] = "returned"
    /\ callPayload[2] = callPayload[1]
    /\ callRead[2] = Absent /\ callComputes[2] = 1 /\ callWrites[2] = 1
    /\ overlapped = {}

\* ---- a cache whose storage may fail (specification SpecStorage)

\* C35: a getOrCompute call whose cache read failed has failed without invoking
\* compute or writing; one whose cache write failed has failed although its
\* compute resolved, after that one write.  A fetchAll whose cache read failed
\* has failed with no request issued for that page; one whose cache write failed
\* has failed although the request got a success response, after that one write.
\* No read or write is made a second time.
C35_StorageFailureFatal ==
    /\ callPc # <<>> =>
          \A c \in CallIds :
              /\ callRead[c] = ReadFailed =>
                    /\ callPc[c] = "threw"
                    /\ callComputes[c] = 0 /\ callWrites[c] = 0
                    /\ callValue[c] = NoValue
              /\ (callPc[c] = "threw" /\ callValue[c] # NoValue) =>
                    /\ callRead[c] = Absent
                    /\ callComputes[c] = 1 /\ callWrites[c] = 1
                    /\ WritesOf(c) = {}
              /\ callWrites[c] <= 1
    /\ fetchError = "cache read failed" =>
          /\ fetchPc = "failed" /\ fetched = <<>>
          /\ curRequests = 0 /\ curSleeps = 0 /\ curWrites = 0
          /\ httpResponse = NoResponse
    /\ fetchError = "cache write failed" =>
          /\ fetchPc = "failed" /\ fetched = <<>>
          /\ httpResponse.status = 200 /\ curRequests >= 1 /\ curWrites = 1

\* C35 witness (getOrCompute): one call failed on its read and a later one on
\* its write, after computing.
C35_Witness ==
    /\ callPc # <<>>
    /\ callPc[1] = "threw" /\ callRead[1] = ReadFailed
    /\ callPc[2] = "threw" /\ callValue[2] \in MemoResults /\ callWrites[2] = 1

\* ---- FileCache (specification SpecFile)

\* C9: a read that overlaps no write of its key, on a key whose writes did not
\* overlap one another, returns null (it does not throw) when the key was never
\* written and the body of the last completed write otherwise; so after the same
\* (namespace, checksum, body) was written twice it gets that body.
C9_RoundTrip ==
    \A o \in Callers :
        (opKind[o] = "read" /\ opPc[o] = "done"
            /\ o \notin readOverlap /\ opKey[o] \notin writeOverlap)
        => opResult[o] = opLast[o]

\* C9 witness: a key was written twice with the same non-ASCII body, nothing
\* overlapped, and a read of that key has returned that body
C9_Witness ==
    \E o \in Callers :
        /\ opKind[o] = "read" /\ opPc[o] = "done"
        /\ readOverlap = {} /\ writeOverlap = {}
        /\ opLast[o] = Entry(<<233, 65>>) /\ prevWrite[opKey[o]] = opLast[o]
        /\ opResult[o] = opLast[o]

\* C36: a read that has returned, overlapping a write or not, gave null or an
\* entry whose body is a body some write call was given in full; it did not
\* throw and gave no truncated body.
C36_NoTornReads ==
    \A o \in Callers :
        (opKind[o] = "read" /\ opPc[o] = "done") =>
            \/ opResult[o] = Null
            \/ opResult[o].kind = "entry" /\ opResult[o].body \in FileBodies

\* ---- fetchRange and fetchLive (specification SpecFetch)

\* C10: a page found in the cache is handed to the pagination loop after no HTTP
\* request, no spacing sleep and no cache write; a page not found is handed to it
\* after at least one live request and one cache write, with the body of the
\* success response stored under the page's checksum.
C10_PageShortCircuit ==
    /\ lastPage.kind = "hit" =>
        lastPage.requests = 0 /\ lastPage.sleeps = 0 /\ lastPage.writes = 0
    /\ lastPage.kind = "miss" =>
        lastPage.requests >= 1 /\ lastPage.writes = 1 /\ lastPage.stored
    /\ fetchPc \in {"spacing", "fetch", "retryWait", "cacheWrite"} => ~curFound

\* C10 witness: one fetchAll got a page from the cache and then another by a
\* retried live request and a cache write
C10_Witness ==
    /\ cacheHits >= 1
    /\ lastPage.kind = "miss" /\ lastPage.requests = 2
    /\ lastPage.writes = 1 /\ lastPage.stored
\* ---- fetchAll (specification SpecFetch)

\* C11: the list fetchAll returns holds no id twice, holds exactly the ids that
\* appeared in the pages of the run, and is in ascending createdUtc order.
C11_OutputShape ==
    fetchPc = "done" =>
        /\ \A j, k \in 1 .. Len(fetched) : fetched[j].id = fetched[k].id => j = k
        /\ {fetched[k].id : k \in 1 .. Len(fetched)} = seenIds
        /\ \A j, k \in 1 .. Len(fetched) :
              j < k => fetched[j].createdUtc <= fetched[k].createdUtc

\* C11 witness: two pages of one range shared an id, and fetchAll returned the
\* three comments of the four records
C11_Witness ==
    /\ fetchPc = "done"
    /\ Len(results) = 4 /\ Len(fetched) = 3

\* C12 (as claimed): when the service answers every page request with the first
\* pageSize comments of the window asked for, every comment of the service created
\* in [startEpoch, endEpoch) is in the list fetchAll returns.
C12_Coverage ==
    (fetchPc = "done" /\ service # "any" /\ client.ranges # <<>>) =>
        \A k \in 1 .. Len(SourceComments) :
            (/\ SourceComments[k].createdUtc >= client.ranges[1].start
             /\ SourceComments[k].createdUtc < client.ranges[Len(client.ranges)].end)
            => \E j \in 1 .. Len(fetched) : fetched[j] = SourceComments[k]

\* the pagination of a range is going on
Paging == fetchPc \in {"cacheRead", "spacing", "fetch", "retryWait", "cacheWrite"}

\* C13: while a range is paginated, the cursor of a page request exceeds that of
\* the request before it and is max(createdUtc of the last item, cursor + 1);
\* a range [start, end) gets at most end - start page requests; and after an
\* empty page no further page of that range is requested.
C13_CursorProgress ==
    /\ (Paging /\ lastPage.kind # "none" /\ lastPage.range = rangeIdx) =>
          /\ cursor > lastPage.after
          /\ lastPage.count > 0
          /\ cursor = IF lastPage.last > lastPage.after + 1 THEN lastPage.last
                                                          ELSE lastPage.after + 1
    /\ Paging =>
          /\ cursor < client.ranges[rangeIdx].end
          /\ rangePages <= client.ranges[rangeIdx].end - client.ranges[rangeIdx].start

\* C13 witness: a page whose last item is no later than the cursor was followed by
\* a second request of the same range, one second later
C13_Witness ==
    /\ Paging /\ lastPage.kind # "none" /\ lastPage.range = rangeIdx
    /\ lastPage.count > 0 /\ lastPage.last <= lastPage.after
    /\ cursor = lastPage.after + 1 /\ rangePages = 2

\* ---- fetchLive (specification SpecFetch)

\* C14 (as claimed): while fetchLive waits after a 429 on attempt a, the wait is
\* the delay of the retry-after header (seconds) when the response carries one
\* and retryBackoffMs * (a + 1) when it carries none.
C14_RateLimitWait ==
    (fetchPc = "retryWait" /\ httpResponse.status = 429) =>
        /\ httpResponse.retryAfter = "1" => waitMs = 1000
        /\ httpResponse.retryAfter = NoHeader =>
              waitMs = client.retryBackoffMs * (attempt + 1)

\* C15: for one page fetchLive issues at most maxRetries requests; a success
\* response ends the attempts and its body is what is written and returned; when
\* the attempts end without a success fetchLive throws after exactly maxRetries
\* requests and fetchAll fails with no records.
C15_BoundedRetry ==
    /\ curRequests <= client.maxRetries
    /\ lastPage.requests <= client.maxRetries
    /\ httpResponse.status = 200 =>
          /\ fetchPc = "cacheWrite"
          /\ fetchError = ""
          /\ PageParse(responseText) \in
                ServicePayloads(service, cursor, client.ranges[rangeIdx].end,
                                client.pageSize)
    /\ fetchPc = "cacheWrite" => httpResponse.status = 200
    /\ (fetchPc = "failed" /\ curRequests > 0) =>
          /\ curRequests = client.maxRetries
          /\ httpResponse.status # 200
          /\ fetchError # ""
          /\ fetched = <<>>

\* C15 witness: with maxRetries = 3 a page was returned by the third request,
\* after two responses that were not a success, and the fetch went on.
C15_Witness ==
    /\ client.maxRetries = 3
    /\ lastPage.kind = "miss" /\ lastPage.requests = 3
    /\ lastPage.count > 0
    /\ fetchPc = "done" /\ fetched # <<>>

\* C16 (as claimed): with requestSpacingMs = S > 0 any two consecutive live
\* requests of one fetchAll (consecutive pages, pages of consecutive sub-ranges,
\* retries of one page) start at least S apart, and a page served from the
\* cache is never delayed.
C16_RequestSpacing ==
    /\ (client.requestSpacingMs > 0 /\ requestGap # -1) =>
          requestGap >= client.requestSpacingMs
    /\ lastPage.kind = "hit" => lastPage.sleeps = 0

\* ---- splitIntoMonthlyRanges (specification SpecSplit)

\* C17: for start < end and monthsPerBatch >= 1 the ranges returned are not
\* empty, begin at start, end at end, each begin where the one before ends and
\* none is empty, so they tile [start, end) and the remainder shorter than a
\* batch is the last range; for end <= start no range is returned.
C17_RangeTiling ==
    (splitPc # "called" /\ splitMonths >= 1) =>
        /\ splitPc = "returned"
        /\ splitEnd <= splitStart => splitRanges = <<>>
        /\ splitStart < splitEnd =>
              /\ splitRanges # <<>>
              /\ splitRanges[1].start = splitStart
              /\ splitRanges[Len(splitRanges)].end = splitEnd
              /\ \A i \in 1 .. Len(splitRanges) :
                    /\ splitRanges[i].start < splitRanges[i].end
                    /\ i < Len(splitRanges) =>
                          splitRanges[i].end = splitRanges[i + 1].start

\* C17 witness: 2024-01-31 to 2024-04-01 in batches of one month gives the chunk
\* that ends on 2024-03-02 (February has no 31st) and the remainder up to the end.
C17_Witness ==
    /\ splitPc = "returned" /\ splitMonths = 1
    /\ splitStart = 1706659200 /\ splitEnd = 1711929600
    /\ splitRanges = <<EpochRange(1706659200, 1709337600),
                       EpochRange(1709337600, 1711929600)>>

\* the number of days of a month (0 .. 11) of a year
DaysInMonth(year, month) ==
    DaysFromCivil(year + (month + 1) \div 12, (month + 1) % 12, 1)
        - DaysFromCivil(year, month, 1)

\* the date `months` calendar months after a date: the same day of the month and
\* time of day in the target month, or that month's last day when it is shorter
CalendarMonthsAfter(date, months) ==
    LET civil == CivilFromDays(date \div 86400)
        targetMonth == civil.month + months
        year == civil.year + targetMonth \div 12
        month == targetMonth % 12
        last == DaysInMonth(year, month)
        day == IF civil.day > last THEN last ELSE civil.day
    IN  DaysFromCivil(year, month, day) * 86400 + (date % 86400)

\* C37: every range returned ends no later than monthsPerBatch calendar months
\* after its own start.
C37_SubRangeLength ==
    (splitPc = "returned" /\ splitMonths >= 1) =>
        \A i \in 1 .. Len(splitRanges) :
            splitRanges[i].end <= CalendarMonthsAfter(splitRanges[i].start, splitMonths)

\* ---- generateCategories over a warm cache (specification SpecDiscover)

\* C39: a generateCategories call that follows a completed one over the same
\* comments, on the same analyzer and cache, makes no inference call and
\* returns the list the first one returned.
C39_WarmDiscovery ==
    (discRuns >= 2 /\ discPc = "done") =>
        /\ discCalls = 0
        /\ discResult = discPrev

\* ---- fetchRange: payload.error (specification SpecFetch)

\* C18: once a page payload with an error, from the service or from the cache,
\* has been handed to fetchRange, fetchAll has failed with an error that holds
\* the payload's message, and it returns no record, whatever was fetched before.
C18_ApiErrorAborts ==
    lastPage.error # "" =>
        /\ fetchPc = "failed"
        /\ fetchError = "Pullpush API returned error: " \o lastPage.error
        /\ fetched = <<>>

\* C18 witness: a fetchAll that had already taken records from an earlier page
\* failed on an error payload it read from the cache.
C18_Witness ==
    /\ fetchPc = "failed" /\ lastPage.kind = "hit" /\ lastPage.error = "boom"
    /\ seenIds # {} /\ cacheHits >= 2 /\ liveRequests = 0

\* ---- fetchAll over a warm cache (specification SpecFetch)

\* C19: a fetchAll that follows a successful fetchAll of the same client
\* (same product, subreddit, page size and epochs) on the same cache issues no
\* HTTP request, does not fail, and returns the list the first one returned.
C19_WarmFetchOffline ==
    (prevOk /\ fetchPc # "idle") =>
        /\ liveRequests = 0
        /\ fetchPc \in {"cacheRead", "done"}
        /\ fetchPc = "done" => fetched = prevFetched

\* C19 witness: the second fetchAll returned the two records of the first from
\* two cached pages.
C19_Witness ==
    /\ prevOk /\ fetchPc = "done" /\ runs >= 2
    /\ Len(fetched) >= 2 /\ cacheHits >= 2 /\ fetched = prevFetched

\* ---- classifyComment (specification SpecClassify)

\* C20: a classifyComment call that begins after a classification of the same
\* comment has completed (under the same model, product, description and
\* categories) makes no inference call, whatever its index and total, and
\* whether or not other classifications failed.
C20_WarmClassificationFree ==
    \A c \in CallIds :
        callWarm[c] => /\ callComputes[c] = 0
                       /\ callPc[c] \in {"reading", "returned"}

\* C20 witness: after a run in which one classification failed and the one of a
\* comment completed with an inference call, the comment was classified again at
\* another position without one, with the same result.
C20_Witness ==
    \E b, c, d \in CallIds :
        /\ callPc[b] = "returned" /\ callComputes[b] = 1
        /\ callPc[d] = "threw"
        /\ callWarm[c] /\ callPc[c] = "returned" /\ callComputes[c] = 0
        /\ callComment[c] = callComment[b]
        /\ callPosition[c] # callPosition[b]
        /\ callValue[c] = callValue[b]

\* ---- analyze: sorted (specification SpecSort)

\* C22: the list analyze classifies and emits in index order holds the comments
\* it was given, newest first: createdUtc never increases along it, and
\* comments with equal createdUtc are in the order of the input list.
C22_NewestFirst ==
    sortPc = "sorted" =>
        /\ Len(sorted) = Len(comments)
        /\ \A k \in 1 .. Len(comments) : \E j \in 1 .. Len(sorted) : sorted[j] = comments[k]
        /\ \A j, k \in 1 .. Len(sorted) :
              j < k => /\ sorted[j].createdUtc >= sorted[k].createdUtc
                       /\ sorted[j].createdUtc = sorted[k].createdUtc
                             => sorted[j].id < sorted[k].id

\* C22 witness: comments created at 1, 3, 1, 3 come out as the second, the
\* fourth, the first and the third.
C22_Witness ==
    /\ sortPc = "sorted"
    /\ comments = AsComments(<<1, 3, 1, 3>>)
    /\ sorted = <<comments[2], comments[4], comments[1], comments[3]>>

\* ---- analyze: categories (specification SpecCategories)

\* C24 (as claimed): the category list analyze classifies with holds the slugs
\* 'unrelated' and 'miscellaneous', whether it comes from category discovery or
\* from the categories file.
C24_MandatoryCategories ==
    catPc = "classifying" =>
        /\ \E k \in 1 .. Len(categories) : categories[k] = "unrelated"
        /\ \E k \in 1 .. Len(categories) : categories[k] = "miscellaneous"

\* ---- fetchLive: failures other than 429 (specification SpecFetch)

\* C25: after a failed attempt a that was not a 429 and not the last, fetchLive
\* waits retryBackoffMs * (a + 1); when every attempt for a page failed without
\* a 429, fetchLive has issued exactly maxRetries requests and thrown an error
\* naming the status, at the time of its last request, without a further wait.
C25_FailureRetry ==
    /\ (fetchPc = "retryWait" /\ httpResponse.status \notin {200, 429}) =>
          /\ attempt < client.maxRetries - 1
          /\ waitMs = client.retryBackoffMs * (attempt + 1)
    /\ (httpResponse.status \notin {0, 200, 429} /\ fetchPc # "retryWait") =>
          /\ fetchPc = "failed"
          /\ attempt = client.maxRetries - 1
          /\ fetchError = "Pullpush API request failed with status "
                             \o ToString(httpResponse.status)
          /\ clock = requestStart
          /\ fetched = <<>>
    /\ (fetchPc = "failed" /\ curRequests > 0 /\ curLimited = 0) =>
          /\ curRequests = client.maxRetries
          /\ httpResponse.status = 500

\* C25 witness: with maxRetries = 3 and retryBackoffMs = 5 three requests for the
\* first page were answered 500; fetchLive waited 5 then 10 and threw at once.
C25_Witness ==
    /\ fetchPc = "failed" /\ client.maxRetries = 3
    /\ curRequests = 3 /\ curLimited = 0 /\ httpResponse.status = 500
    /\ liveRequests = 3 /\ clock = 100000 + 5 + 10


\* ---------------------------------------------------------- specification
Init == InitAnalyze /\ InitTarget /\ HashIdle /\ MemoIdle /\ FileIdle /\ FetchIdle /\ SplitIdle /\ SortIdle /\ CategoriesIdle /\ DiscoverIdle

Next ==
    \/ AnalyzeEmpty
    \/ AnalyzeBegin
    \/ CategoriesFail
    \/ \E i \in Indices : Start(i)
    \/ \E i \in Indices : ClassifyOk(i)
    \/ \E i \in Indices : ClassifyFail(i)
    \/ \E d \in Drainers : CallbackReturn(d)
    \/ \E d \in Drainers : CallbackFail(d)
    \/ \E i \in Indices : TaskResolve(i)
    \/ \E i \in Indices : TaskReject(i)
    \/ AllFulfilled
    \/ TargetNoComments
    \/ TargetCreateWriter
    \/ TargetClose
    \/ TargetFail

Spec == Init /\ [][Next]_vars

\* the same steps, where an awaited callback that can return does return
SpecLive == Init /\ [][Next]_vars /\ WF_vars(\E d \in Drainers : CallbackReturn(d))

\* checksumFrom applied to two values
PipelineIdle ==
    /\ n = 0 /\ concurrency = 1 /\ hasCallback = FALSE /\ shouldCollect = TRUE
    /\ analyzePc = "notCalled" /\ analyzeError = NoError /\ returned = NoResult
    /\ taskPc = <<>> /\ taskError = <<>> /\ activeCount = 0 /\ pending = {}
    /\ nextEmitIndex = 0 /\ collected = <<>> /\ callbackSeq = <<>>
    /\ completionOrder = <<>>
    /\ caller = "none" /\ targetPc = "none" /\ writer = "none" /\ rows = <<>>

InitHashSpec == InitHash /\ PipelineIdle /\ MemoIdle /\ FileIdle /\ FetchIdle /\ SplitIdle /\ SortIdle /\ CategoriesIdle /\ DiscoverIdle
NextHash == HashFirst \/ HashSecond
SpecHash == InitHashSpec /\ [][NextHash]_vars

\* calls of getOrCompute on one cache, in sequence or overlapping
InitMemoSpec == InitMemo /\ PipelineIdle /\ HashIdle /\ FileIdle /\ FetchIdle /\ SplitIdle /\ SortIdle /\ CategoriesIdle /\ DiscoverIdle
NextMemo ==
    \/ \E c \in CallIds, p \in MemoPayloads : GetOrCompute(c, p)
    \/ \E c \in CallIds : CacheReadDone(c)
    \/ \E c \in CallIds, r \in MemoResults : ComputeOk(c, r)
    \/ \E c \in CallIds : ComputeFail(c)
    \/ \E c \in CallIds : CacheWriteDone(c)
SpecMemo == InitMemoSpec /\ [][NextMemo]_vars

\* reads and writes of one FileCache, in sequence or overlapping
InitFileSpec == InitFile /\ PipelineIdle /\ HashIdle /\ MemoIdle /\ FetchIdle /\ SplitIdle /\ SortIdle /\ CategoriesIdle /\ DiscoverIdle
NextFile ==
    \/ \E o \in Callers, key \in FileKeys, body \in FileBodies : WriteBegin(o, key, body)
    \/ \E o \in Callers : MkdirDone(o)
    \/ \E o \in Callers : BodyOpen(o)
    \/ \E o \in Callers : BodyWrite(o)
    \/ \E o \in Callers : MetaOpen(o)
    \/ \E o \in Callers : MetaWrite(o)
    \/ \E o \in Callers : WriteDone(o)
    \/ \E o \in Callers, key \in FileKeys : ReadBegin(o, key)
    \/ \E o \in Callers : ReadBodyFile(o)
    \/ \E o \in Callers : ReadMetaFile(o)
    \/ \E o \in Callers : ReadDone(o)
SpecFile == InitFileSpec /\ [][NextFile]_vars

\* fetchAll, called up to MaxRuns times on one cache
InitFetchSpec == InitFetch /\ PipelineIdle /\ HashIdle /\ MemoIdle /\ FileIdle /\ SplitIdle /\ SortIdle /\ CategoriesIdle /\ DiscoverIdle
NextFetch ==
    \/ FetchAllStart
    \/ CacheReadPage
    \/ SpacingDone
    \/ \E response \in Responses : FetchResponse(response)
    \/ RetryWaitDone
    \/ CacheWritePage
SpecFetch == InitFetchSpec /\ [][NextFetch]_vars

\* getOrCompute calls for one request, or fetchAll calls of one client, over a
\* cache whose reads and writes may fail
StoragePayload == Obj(<<"type", "commentId">>, <<Leaf("str", "classification"), Leaf("str", "c1")>>)
StorageResult == Obj(<<"category">>, <<Leaf("str", "bug")>>)
InitStorageSpec ==
    /\ \/ (InitMemo /\ FetchIdle)
       \/ (InitFetch /\ MemoIdle /\ service = "inclusive")
    /\ PipelineIdle /\ HashIdle /\ FileIdle /\ SplitIdle /\ SortIdle /\ CategoriesIdle /\ DiscoverIdle
NextStorage ==
    \/ \E c \in CallIds : callPc # <<>> /\ GetOrCompute(c, StoragePayload)
    \/ \E c \in CallIds : callPc # <<>> /\ CacheReadDone(c)
    \/ \E c \in CallIds : CacheReadThrows(c)
    \/ \E c \in CallIds : callPc # <<>> /\ ComputeOk(c, StorageResult)
    \/ \E c \in CallIds : callPc # <<>> /\ ComputeFail(c)
    \/ \E c \in CallIds : callPc # <<>> /\ CacheWriteDone(c)
    \/ \E c \in CallIds, stored \in BOOLEAN : CacheWriteThrows(c, stored)
    \/ NextFetch
    \/ PageReadThrows
    \/ \E stored \in BOOLEAN : PageWriteThrows(stored)
SpecStorage == InitStorageSpec /\ [][NextStorage]_vars

\* calls of generateCategories on one analyzer, one after another
InitDiscoverSpec ==
    InitDiscover /\ PipelineIdle /\ HashIdle /\ MemoIdle /\ FileIdle /\ FetchIdle
        /\ SplitIdle /\ SortIdle /\ CategoriesIdle
NextDiscover ==
    \/ GenerateCategories
    \/ \E shuffled \in Shuffle(discComments), answer \in CategoryAnswers :
          DiscoverIteration(shuffled, answer)
    \/ \E answer \in CategoryAnswers : ConsolidateStep(answer)
SpecDiscover == InitDiscoverSpec /\ [][NextDiscover]_vars

\* calls of splitIntoMonthlyRanges
InitSplitSpec ==
    InitSplit /\ PipelineIdle /\ HashIdle /\ MemoIdle /\ FileIdle /\ FetchIdle /\ SortIdle
        /\ CategoriesIdle /\ DiscoverIdle
NextSplit == SplitReturn
SpecSplit == InitSplitSpec /\ [][NextSplit]_vars

\* calls of classifyComment on one analyzer, in sequence or overlapping
InitClassifySpec ==
    InitClassify /\ PipelineIdle /\ HashIdle /\ FileIdle /\ FetchIdle /\ SplitIdle /\ SortIdle
        /\ CategoriesIdle /\ DiscoverIdle
NextClassify ==
    \/ \E c \in CallIds, comment \in ClassifyComments, position \in ClassifyPositions :
          ClassifyComment(c, comment, position[1], position[2])
    \/ \E c \in CallIds : CacheReadDone(c)
    \/ \E c \in CallIds : ComputeOk(c, ClassifyResult(callComment[c]))
    \/ \E c \in CallIds : ComputeFail(c)
    \/ \E c \in CallIds : CacheWriteDone(c)
SpecClassify == InitClassifySpec /\ [][NextClassify]_vars

\* the sort at the head of analyze
InitSortSpec ==
    InitSort /\ PipelineIdle /\ HashIdle /\ MemoIdle /\ FileIdle /\ FetchIdle /\ SplitIdle
        /\ CategoriesIdle /\ DiscoverIdle
NextSort == SortStep
SpecSort == InitSortSpec /\ [][NextSort]_vars

\* the category list of one analyze call
InitCategoriesSpec ==
    InitCategories /\ PipelineIdle /\ HashIdle /\ MemoIdle /\ FileIdle /\ FetchIdle
        /\ SplitIdle /\ SortIdle /\ DiscoverIdle
NextCategories == ChooseCategories
SpecCategories == InitCategoriesSpec /\ [][NextCategories]_vars

====
